---- MODULE Spec2Model ----
(***************************************************************************)
(* A model of parts of noodles: the CRAM reference sequence context and    *)
(* slice builder, the normalized reference MD5, the BCF typed value        *)
(* writer, the fqzcomp quality decoder, the rANS 4x8 frame decoder and the *)
(* CRAM file definition reader.                                            *)
(*                                                                         *)
(* Option<T> is modelled as a sequence: None is << >>, Some(x) is <<x>>.   *)
(***************************************************************************)
EXTENDS Integers, Sequences, FiniteSets, TLC

\* ------------------------------------------------------------------------
\* Bounds of the model
\* ------------------------------------------------------------------------
NumRefs == 2
MaxPos == 2
MaxUpdates == 2
MaxRecords == 2
MaxSeqLen == 2
MaxArrayLen == 2
MaxBufLen == 3
MaxRecLen == 2
MaxSym == 1
MaxRec == 3
MaxDataLen == 2
MaxMates == 3
MaxQualLen == 3
MaxRevRecs == 2
MaxTableLen == 3
MaxStreamLen == 3
MaxRenormLen == 3

\* ------------------------------------------------------------------------
\* State
\* ------------------------------------------------------------------------
VARIABLES
    context,    \* the ReferenceSequenceContext under update
    context0,   \* the value it was constructed with
    updates,    \* the arguments of the update calls made so far, in order
    records,    \* slice::Builder.records
    reference_sequence_context, \* slice::Builder.reference_sequence_context
    slice,      \* the outcome of slice::Builder::build, << >> before the call
    sequences,  \* two inputs of calculate_normalized_sequence_digest
    digests,    \* their digests, << >> before the call
    values,     \* two arguments of bcf write_value
    bufs,       \* [state, out]: the bytes written for each of the two
    fqz_in,     \* what fqz_decode reads first: buf_len and the parameters
    fq,         \* the locals of fqz_decode and its outcome
    rans_in,    \* the bytes of the stream given to rans_decode
    rans,       \* the reader position, the locals and the outcome of rans_decode
    add_result, \* what the last add_record returned, << >> before any call
    file_in,    \* the bytes of the stream given to read_file_definition
    fd,         \* the reader position and the outcome of read_file_definition
    mates_in,   \* the records given to set_mates
    mates,      \* [state, records]: the records after set_mates
    rev_in,     \* the arguments of reverse_qualities: qual and rev_len
    rev_out,    \* [state, qual, twice]: qual after one and after two calls
    array_in,   \* the arguments of read_array: n and the bytes of the stream
    array,      \* the outcome of read_array
    renorm      \* the arguments and the outcome of rans_renorm

vars == <<context, context0, updates, records, reference_sequence_context,
          slice, sequences, digests, values, bufs, fqz_in, fq, rans_in, rans,
          add_result, file_in, fd, mates_in, mates, rev_in, rev_out, array_in,
          array, renorm>>

\* ------------------------------------------------------------------------
\* Helpers
\* ------------------------------------------------------------------------
Option(S) == {<< >>} \cup {<<x>> : x \in S}

IsSome(o) == o # << >>

RefIds == 0 .. (NumRefs - 1)

Positions == 1 .. MaxPos

\* ------------------------------------------------------------------------
\* noodles-cram: data_container/reference_sequence_context.rs
\* ------------------------------------------------------------------------
cmp_min(a, b) == IF b < a THEN b ELSE a

cmp_max(a, b) == IF b > a THEN b ELSE a

some(reference_sequence_id, alignment_start, alignment_end) ==
    [kind |-> "Some",
     reference_sequence_id |-> reference_sequence_id,
     alignment_start |-> alignment_start,
     alignment_end |-> alignment_end]

CtxNone == [kind |-> "None"]

CtxMany == [kind |-> "Many"]

is_many(self) == self.kind = "Many"

alignment_span(self) == self.alignment_end - self.alignment_start + 1

Contexts ==
    {CtxNone, CtxMany}
        \cup {some(id, s, e) : id \in RefIds, s \in Positions, e \in Positions}

\* Variants of update used to test the properties below.
update_min_end(self, reference_sequence_id, alignment_start, alignment_end) ==
    IF self.kind = "Some"
    THEN IF IsSome(reference_sequence_id) /\ IsSome(alignment_start)
            /\ IsSome(alignment_end)
         THEN IF reference_sequence_id[1] = self.reference_sequence_id
              THEN some(reference_sequence_id[1],
                        cmp_min(alignment_start[1], self.alignment_start),
                        cmp_min(alignment_end[1], self.alignment_end))
              ELSE CtxMany
         ELSE CtxMany
    ELSE IF self.kind = "None"
         THEN IF IsSome(reference_sequence_id) THEN CtxMany ELSE CtxNone
         ELSE CtxMany

update_keep_on_mismatch(self, reference_sequence_id, alignment_start, alignment_end) ==
    IF self.kind = "Some"
    THEN IF IsSome(reference_sequence_id) /\ IsSome(alignment_start)
            /\ IsSome(alignment_end)
         THEN IF reference_sequence_id[1] = self.reference_sequence_id
              THEN some(reference_sequence_id[1],
                        cmp_min(alignment_start[1], self.alignment_start),
                        cmp_max(alignment_end[1], self.alignment_end))
              ELSE self
         ELSE CtxMany
    ELSE IF self.kind = "None"
         THEN IF IsSome(reference_sequence_id) THEN CtxMany ELSE CtxNone
         ELSE CtxMany

update_keep_on_unmapped(self, reference_sequence_id, alignment_start, alignment_end) ==
    IF self.kind = "Some"
    THEN IF IsSome(reference_sequence_id) /\ IsSome(alignment_start)
            /\ IsSome(alignment_end)
         THEN IF reference_sequence_id[1] = self.reference_sequence_id
              THEN some(reference_sequence_id[1],
                        cmp_min(alignment_start[1], self.alignment_start),
                        cmp_max(alignment_end[1], self.alignment_end))
              ELSE CtxMany
         ELSE IF IsSome(reference_sequence_id) THEN CtxMany ELSE self
    ELSE IF self.kind = "None"
         THEN IF IsSome(reference_sequence_id) THEN CtxMany ELSE CtxNone
         ELSE CtxMany

update_none_stays_none(self, reference_sequence_id, alignment_start, alignment_end) ==
    IF self.kind = "Some"
    THEN IF IsSome(reference_sequence_id) /\ IsSome(alignment_start)
            /\ IsSome(alignment_end)
         THEN IF reference_sequence_id[1] = self.reference_sequence_id
              THEN some(reference_sequence_id[1],
                        cmp_min(alignment_start[1], self.alignment_start),
                        cmp_max(alignment_end[1], self.alignment_end))
              ELSE CtxMany
         ELSE CtxMany
    ELSE IF self.kind = "None"
         THEN IF IsSome(reference_sequence_id) /\ IsSome(alignment_start)
              THEN CtxMany ELSE CtxNone
         ELSE CtxMany

update_many_resets(self, reference_sequence_id, alignment_start, alignment_end) ==
    IF self.kind = "Some"
    THEN IF IsSome(reference_sequence_id) /\ IsSome(alignment_start)
            /\ IsSome(alignment_end)
         THEN IF reference_sequence_id[1] = self.reference_sequence_id
              THEN some(reference_sequence_id[1],
                        cmp_min(alignment_start[1], self.alignment_start),
                        cmp_max(alignment_end[1], self.alignment_end))
              ELSE CtxMany
         ELSE CtxMany
    ELSE IF self.kind = "None"
         THEN IF IsSome(reference_sequence_id) THEN CtxMany ELSE CtxNone
         ELSE IF IsSome(reference_sequence_id) THEN CtxMany ELSE CtxNone

update(self, reference_sequence_id, alignment_start, alignment_end) ==
    IF self.kind = "Some"
    THEN IF IsSome(reference_sequence_id) /\ IsSome(alignment_start)
            /\ IsSome(alignment_end)
         THEN IF reference_sequence_id[1] = self.reference_sequence_id
              THEN some(reference_sequence_id[1],
                        cmp_min(alignment_start[1], self.alignment_start),
                        cmp_max(alignment_end[1], self.alignment_end))
              ELSE CtxMany
         ELSE CtxMany
    ELSE IF self.kind = "None"
         THEN IF IsSome(reference_sequence_id) THEN CtxMany ELSE CtxNone
         ELSE CtxMany

\* ------------------------------------------------------------------------
\* noodles-cram: data_container/slice/builder.rs
\* ------------------------------------------------------------------------
MAX_RECORD_COUNT == 10240

\* u8::is_ascii_graphic: the inclusive range '!' ..= '~'.
is_ascii_graphic_with_space(b) == 32 <= b /\ b <= 126

is_ascii_graphic(b) == 33 <= b /\ b <= 126

\* u8::to_ascii_uppercase: 'a' ..= 'z' to 'A' ..= 'Z', every other byte kept.
to_ascii_uppercase(b) == IF 97 <= b /\ b <= 122 THEN b - 32 ELSE b

\* The MD5 hasher is the md5 crate's: its state is modelled as the bytes fed
\* to it so far and its digest as an uninterpreted, injective image of them.
Md5_new == << >>

Md5_update(hasher, bytes) == hasher \o bytes

Md5_finalize(hasher) == [zero |-> FALSE, md5_of |-> hasher]

\* [0; 16]
ZeroDigest == [zero |-> TRUE, md5_of |-> << >>]

RECURSIVE digest_loop(_, _, _)
digest_loop(hasher, sequence, k) ==
    IF k > Len(sequence)
    THEN hasher
    ELSE LET b == sequence[k] IN
         digest_loop(IF is_ascii_graphic(b)
                     THEN Md5_update(hasher, <<to_ascii_uppercase(b)>>)
                     ELSE hasher,
                     sequence, k + 1)

calculate_normalized_sequence_digest(sequence) ==
    Md5_finalize(digest_loop(Md5_new, sequence, 1))

\* Flags of a record, as sets of flag names.
HAS_MATE_DOWNSTREAM == "HAS_MATE_DOWNSTREAM"

DETACHED == "DETACHED"

set_detached(record) ==
    [record EXCEPT !.cram_bit_flags = @ \cup {DETACHED}]

\* The record list after set_downstream_mate(i, records[i], j, records[j]).
\* Indices are 1-based here, so j - i - 1 is the same distance as in the code.
set_downstream_mate(recs, i, j) ==
    [recs EXCEPT
        ![i] = [@ EXCEPT !.distance_to_next_fragment = <<j - i - 1>>,
                         !.cram_bit_flags = @ \cup {HAS_MATE_DOWNSTREAM}],
        ![j] = [@ EXCEPT !.cram_bit_flags = @ \ {DETACHED}]]

\* The loop of set_mates from index i down to the first record; indices is
\* the HashMap from read name to the index of its latest seen record.
RECURSIVE set_mates_loop(_, _, _)
set_mates_loop(recs, indices, i) ==
    IF i = 0
    THEN recs
    ELSE LET record == recs[i] IN
         IF record.is_segmented /\ ~record.is_secondary
         THEN LET read_name == record.read_name
                  inserted == (read_name :> i) @@ indices
              IN  IF read_name \in DOMAIN indices
                  THEN set_mates_loop(
                           set_downstream_mate(recs, i, indices[read_name]),
                           inserted, i - 1)
                  ELSE set_mates_loop([recs EXCEPT ![i] = set_detached(record)],
                                      inserted, i - 1)
         ELSE set_mates_loop([recs EXCEPT ![i] = set_detached(record)],
                             indices, i - 1)

\* set_mates panics on an empty list (assert!(!records.is_empty())).
set_mates_panics(recs) == Len(recs) = 0

set_mates(recs) == set_mates_loop(recs, << >>, Len(recs))

\* The SAM header's reference sequences, by index: the name of each.
RefNames == {<<"sq", n>> : n \in RefIds}

header_reference_sequences == [id \in RefIds |-> <<"sq", (NumRefs - 1) - id>>]

\* The bytes of the reference sequences held by the repository.
RefBytes == <<97, 67, 103, 10, 84, 32, 78, 116>>

\* Every other reference sequence is one base shorter than the positions used.
repository ==
    [name \in RefNames |->
        [p \in 1 .. (MaxPos - (name[2] % 2)) |->
            RefBytes[((3 * name[2] + p - 1) % Len(RefBytes)) + 1]]]

repository_get(name) ==
    IF name \in DOMAIN repository THEN <<repository[name]>> ELSE << >>

\* reference_sequence[start..=end]: the bases at the 1-based positions start
\* to end, both included; << >> stands for the panic of an out of range index.
sequence_index(reference_sequence, start, end) ==
    IF start <= end + 1 /\ end <= Len(reference_sequence)
    THEN <<SubSeq(reference_sequence, start, end)>>
    ELSE << >>

\* The match of build that computes reference_md5; << >> stands for a panic.
build_reference_md5_half_open(ctx) ==
    IF ctx.kind = "Some"
    THEN IF ctx.reference_sequence_id \notin DOMAIN header_reference_sequences
         THEN << >>
         ELSE LET reference_sequence_name ==
                      header_reference_sequences[ctx.reference_sequence_id]
                  reference_sequence == repository_get(reference_sequence_name)
              IN  IF ~IsSome(reference_sequence)
                  THEN << >>
                  ELSE LET sequence ==
                               sequence_index(reference_sequence[1],
                                              ctx.alignment_start,
                                              ctx.alignment_end - 1)
                       IN  IF ~IsSome(sequence)
                           THEN << >>
                           ELSE <<calculate_normalized_sequence_digest(sequence[1])>>
    ELSE <<ZeroDigest>>

build_reference_md5(ctx) ==
    IF ctx.kind = "Some"
    THEN IF ctx.reference_sequence_id \notin DOMAIN header_reference_sequences
         THEN << >>
         ELSE LET reference_sequence_name ==
                      header_reference_sequences[ctx.reference_sequence_id]
                  reference_sequence == repository_get(reference_sequence_name)
              IN  IF ~IsSome(reference_sequence)
                  THEN << >>
                  ELSE LET sequence ==
                               sequence_index(reference_sequence[1],
                                              ctx.alignment_start,
                                              ctx.alignment_end)
                       IN  IF ~IsSome(sequence)
                           THEN << >>
                           ELSE <<calculate_normalized_sequence_digest(sequence[1])>>
    ELSE <<ZeroDigest>>

\* The records offered to add_record. The alignment end is absent whenever
\* the start is; in this specification the mate fields take few values.
AlignmentSpans ==
    {<< << >>, << >> >>}
        \cup {<< <<s>>, << >> >> : s \in Positions}
        \cup {<< <<s>>, <<e>> >> : s \in Positions, e \in Positions}

RecordInputs ==
    {[reference_sequence_id |-> id,
      alignment_start |-> span[1],
      alignment_end |-> span[2],
      is_segmented |-> seg,
      is_secondary |-> FALSE,
      read_name |-> <<"r1">>,
      cram_bit_flags |-> {},
      distance_to_next_fragment |-> << >>] :
        id \in Option(RefIds),
        span \in {sp \in AlignmentSpans :
                    IsSome(sp[2]) => sp[1][1] <= sp[2][1]},
        seg \in BOOLEAN}

\* A record as record::Builder::default() builds it, with a read name.
UnmappedRecord ==
    [reference_sequence_id |-> << >>,
     alignment_start |-> << >>,
     alignment_end |-> << >>,
     is_segmented |-> FALSE,
     is_secondary |-> FALSE,
     read_name |-> <<"r1">>,
     cram_bit_flags |-> {},
     distance_to_next_fragment |-> << >>]

\* A few records: unmapped, mapped to either reference, without an end.
SampleRecords ==
    {UnmappedRecord,
     [UnmappedRecord EXCEPT !.reference_sequence_id = <<0>>,
                            !.alignment_start = <<1>>,
                            !.alignment_end = <<1>>],
     [UnmappedRecord EXCEPT !.reference_sequence_id = <<0>>,
                            !.alignment_start = <<1>>,
                            !.alignment_end = <<2>>,
                            !.is_segmented = TRUE],
     [UnmappedRecord EXCEPT !.reference_sequence_id = <<1>>,
                            !.alignment_start = <<2>>,
                            !.alignment_end = <<2>>],
     [UnmappedRecord EXCEPT !.reference_sequence_id = <<0>>,
                            !.alignment_start = <<1>>]}

\* The test of add_record for a full slice, with > in place of >=.
is_full_off_by_one(recs) == Len(recs) > MAX_RECORD_COUNT

\* self.records.len() >= MAX_RECORD_COUNT
is_full(recs) == Len(recs) >= MAX_RECORD_COUNT

\* ------------------------------------------------------------------------
\* noodles-bcf: writer/value.rs
\* ------------------------------------------------------------------------
\* A Value is a record: kind names the variant; a scalar carries Option of
\* the integer that i8::from / i16::from / i32::from gives for it, an array
\* carries its elements.
ValueNone == [kind |-> "None"]

Scalar(kind, v) == [kind |-> kind, value |-> v]

Array(kind, vs) == [kind |-> kind, values |-> vs]

\* WriteBytesExt::write_i8 and the little-endian write_i16 and write_i32.
write_i8(v) == <<v % 256>>

write_i16_le(v) == <<v % 256, (v \div 256) % 256>>

write_i32_le(v) ==
    <<v % 256, (v \div 256) % 256, (v \div 65536) % 256, (v \div 16777216) % 256>>

\* write_type: the type descriptor byte, the length in the high nibble and
\* the type code in the low one; a length of 15 or more is written after it.
TypeCode(ty) ==
    CASE ty = "Int8" -> 1
      [] ty = "Int16" -> 2
      [] ty = "Int32" -> 3

write_type(ty) ==
    IF ~IsSome(ty)
    THEN <<0>>
    ELSE LET code == TypeCode(ty[1].type)
             len == ty[1].len
         IN  IF len < 15
             THEN <<len * 16 + code>>
             ELSE <<15 * 16 + code>> \o <<1 * 16 + 3>> \o write_i32_le(len)

Type(ty, len) == <<[type |-> ty, len |-> len]>>

RECURSIVE write_each(_, _, _)
write_each(write_one(_), vs, k) ==
    IF k > Len(vs) THEN << >> ELSE write_one(vs[k]) \o write_each(write_one, vs, k + 1)

write_missing == write_type(<< >>)

write_int8(value) ==
    IF ~IsSome(value)
    THEN write_type(Type("Int8", 0))
    ELSE write_type(Type("Int8", 1)) \o write_i8(value[1])

write_int8_array_fixed_len(vs) ==
    write_type(Type("Int8", 3)) \o write_each(write_i8, vs, 1)

write_int8_array(vs) ==
    write_type(Type("Int8", Len(vs))) \o write_each(write_i8, vs, 1)

write_int16(value) ==
    IF ~IsSome(value)
    THEN write_type(Type("Int16", 0))
    ELSE write_type(Type("Int16", 1)) \o write_i16_le(value[1])

write_int16_array(vs) ==
    write_type(Type("Int16", Len(vs))) \o write_each(write_i16_le, vs, 1)

write_int32(value) ==
    IF ~IsSome(value)
    THEN write_type(Type("Int32", 0))
    ELSE write_type(Type("Int32", 1)) \o write_i32_le(value[1])

write_int32_array(vs) ==
    write_type(Type("Int32", Len(vs))) \o write_each(write_i32_le, vs, 1)

\* write_value: <<the bytes written>>, or << >> for the panic of todo!().
write_value(value) ==
    CASE value.kind = "None" -> <<write_missing>>
      [] value.kind = "Int8" -> <<write_int8(value.value)>>
      [] value.kind = "Int8Array" -> <<write_int8_array(value.values)>>
      [] value.kind = "Int16" -> <<write_int16(value.value)>>
      [] value.kind = "Int16Array" -> <<write_int16_array(value.values)>>
      [] value.kind = "Int32" -> <<write_int32(value.value)>>
      [] value.kind = "Int32Array" -> <<write_int32_array(value.values)>>
      [] OTHER -> << >>

Int8Samples == {-128, -1, 5}

Int16Samples == {-1, 5, 377}

Int32Samples == {-1, 377, 75025}

RECURSIVE SeqsUpTo(_, _)
SeqsUpTo(S, n) ==
    IF n = 0
    THEN {<< >>}
    ELSE LET shorter == SeqsUpTo(S, n - 1) IN
         shorter \cup {Append(q, x) : q \in shorter, x \in S}

ValuesOf(kind, S) ==
    {Scalar(kind, v) : v \in Option(S)}
        \cup {Array(kind \o "Array", vs) : vs \in SeqsUpTo(S, MaxArrayLen)}

\* The values of the round trip property, and one that write_value does not
\* support.
IntValues ==
    {ValueNone} \cup ValuesOf("Int8", Int8Samples)
        \cup ValuesOf("Int16", Int16Samples) \cup ValuesOf("Int32", Int32Samples)

Values == IntValues \cup {[kind |-> "Float"]}

\* ------------------------------------------------------------------------
\* noodles-cram: codecs/fqzcomp.rs
\* ------------------------------------------------------------------------
\* The value pos takes when pos -= 1 wraps. usize::MAX is 2^64 - 1; the
\* largest integer of the model checker, 2^31 - 1, stands for it: pos is
\* only decremented, compared with 0 and clamped to 1023.
USIZE_MAX == 2147483647

\* Flags of the parameter block and of one parameter set.
DO_REV == "DO_REV"

HAVE_S_TAB == "HAVE_S_TAB"

MULTI_PARAM == "MULTI_PARAM"

DO_DEDUP == "DO_DEDUP"

DO_LEN == "DO_LEN"

DO_SEL == "DO_SEL"

HAVE_QMAP == "HAVE_QMAP"

HAVE_PTAB == "HAVE_PTAB"

HAVE_DTAB == "HAVE_DTAB"

\* A table is held as the sequence of its leading entries; every entry past
\* them equals the last one held. Indices count from 0, as in the code.
TableAt(table, idx) == table[cmp_min(idx, Len(table) - 1) + 1]

\* Record::default()
Record_default ==
    [rec |-> 0, sel |-> 0, rec_len |-> 0, pos |-> 0, is_dup |-> FALSE,
     qctx |-> 0, delta |-> 0, prevq |-> 0]

\* decode_length on the four symbols that the length models give.
decode_length(b) == b[4] * 16777216 + b[3] * 65536 + b[2] * 256 + b[1]

\* fqz_new_record that leaves first_len as it is after a length is decoded.
fqz_new_record_keeps_first_len(parameters, record, rev_len, decoded) ==
    LET sel == IF parameters.max_sel > 0 THEN decoded.sel ELSE 0
        x == IF parameters.max_sel > 0 /\ HAVE_S_TAB \in parameters.gflags
             THEN parameters.s_tab[sel + 1]
             ELSE 0
        param == parameters.params[x + 1]
        reads_len == DO_LEN \in param.flags \/ param.first_len > 0
        param1 ==
            IF reads_len
            THEN [param EXCEPT !.last_len = decode_length(decoded.len)]
            ELSE param
        rec_len == param1.last_len
    IN  [parameters |-> [parameters EXCEPT !.params[x + 1] = param1],
         record |->
            [record EXCEPT
                !.sel = sel,
                !.rec_len = rec_len,
                !.pos = rec_len,
                !.rec = @ + 1,
                !.is_dup = IF DO_DEDUP \in param1.flags THEN decoded.dup ELSE @,
                !.qctx = 0,
                !.delta = 0,
                !.prevq = 0],
         rev_len |->
            IF DO_REV \in parameters.gflags
            THEN Append(rev_len, <<decoded.rev, rec_len>>)
            ELSE rev_len,
         reads_len |-> reads_len,
         x |-> x]

\* fqz_new_record. decoded holds the symbols the models give when asked:
\* sel, the four length bytes, rev and dup. The result is the parameters,
\* the record, rev_len and the index x of the parameter set.
fqz_new_record(parameters, record, rev_len, decoded) ==
    LET sel == IF parameters.max_sel > 0 THEN decoded.sel ELSE 0
        x == IF parameters.max_sel > 0 /\ HAVE_S_TAB \in parameters.gflags
             THEN parameters.s_tab[sel + 1]
             ELSE 0
        param == parameters.params[x + 1]
        reads_len == DO_LEN \in param.flags \/ param.first_len > 0
        param1 ==
            IF reads_len
            THEN [param EXCEPT
                    !.last_len = decode_length(decoded.len),
                    !.first_len = IF DO_LEN \notin param.flags THEN 0 ELSE @]
            ELSE param
        rec_len == param1.last_len
    IN  [parameters |-> [parameters EXCEPT !.params[x + 1] = param1],
         record |->
            [record EXCEPT
                !.sel = sel,
                !.rec_len = rec_len,
                !.pos = rec_len,
                !.rec = @ + 1,
                !.is_dup = IF DO_DEDUP \in param1.flags THEN decoded.dup ELSE @,
                !.qctx = 0,
                !.delta = 0,
                !.prevq = 0],
         rev_len |->
            IF DO_REV \in parameters.gflags
            THEN Append(rev_len, <<decoded.rev, rec_len>>)
            ELSE rev_len,
         reads_len |-> reads_len,
         x |-> x]

RECURSIVE Pow2(_)
Pow2(n) == IF n = 0 THEN 1 ELSE 2 * Pow2(n - 1)

\* u32 << n. The tables, shifts and locations of the parameter sets used
\* here keep every operand below 2^16, so no bit is shifted out of 32.
shl32(v, n) == v * Pow2(n)

\* fqz_update_context without the final ctx & 0xffff.
fqz_update_context_unmasked(param, q, record) ==
    LET qctx == shl32(record.qctx, param.q_shift) + param.q_tab[q + 1]
        c0 == param.context + shl32(qctx % Pow2(param.q_bits), param.q_loc)
        c1 == IF HAVE_PTAB \in param.flags
              THEN c0 + shl32(TableAt(param.p_tab, cmp_min(record.pos, 1023)),
                              param.p_loc)
              ELSE c0
        c2 == IF HAVE_DTAB \in param.flags
              THEN c1 + shl32(TableAt(param.d_tab, cmp_min(record.delta, 255)),
                              param.d_loc)
              ELSE c1
        c3 == IF DO_SEL \in param.flags
              THEN c2 + shl32(record.sel, param.s_loc)
              ELSE c2
    IN  [ctx |-> c3,
         record |->
            [record EXCEPT
                !.qctx = qctx,
                !.delta = IF HAVE_DTAB \in param.flags /\ record.prevq # q
                          THEN @ + 1 ELSE @,
                !.prevq = IF HAVE_DTAB \in param.flags THEN q ELSE @]]

\* fqz_update_context: the next context and the record with qctx, delta and
\* prevq updated.
fqz_update_context(param, q, record) ==
    LET qctx == shl32(record.qctx, param.q_shift) + param.q_tab[q + 1]
        c0 == param.context + shl32(qctx % Pow2(param.q_bits), param.q_loc)
        c1 == IF HAVE_PTAB \in param.flags
              THEN c0 + shl32(TableAt(param.p_tab, cmp_min(record.pos, 1023)),
                              param.p_loc)
              ELSE c0
        c2 == IF HAVE_DTAB \in param.flags
              THEN c1 + shl32(TableAt(param.d_tab, cmp_min(record.delta, 255)),
                              param.d_loc)
              ELSE c1
        c3 == IF DO_SEL \in param.flags
              THEN c2 + shl32(record.sel, param.s_loc)
              ELSE c2
    IN  [ctx |-> c3 % 65536,
         record |->
            [record EXCEPT
                !.qctx = qctx,
                !.delta = IF HAVE_DTAB \in param.flags /\ record.prevq # q
                          THEN @ + 1 ELSE @,
                !.prevq = IF HAVE_DTAB \in param.flags THEN q ELSE @]]

\* qual.swap(a, b) for 0-based a and b inside qual.
swap(qual, a, b) == [qual EXCEPT ![a + 1] = qual[b + 1], ![b + 1] = qual[a + 1]]

\* The inner loop of reverse_qualities on record bytes i .. i + len - 1, from
\* the pair (j, k); << >> stands for the panic of an index outside qual.
RECURSIVE reverse_record(_, _, _, _)
reverse_record(qual, i, j, k) ==
    IF ~(j < k)
    THEN <<qual>>
    ELSE IF i + k >= Len(qual)
         THEN << >>
         ELSE reverse_record(swap(qual, i + j, i + k), i, j + 1, k - 1)

\* reverse_qualities from record rec at offset i: <<qual>> when the loop
\* ends, << >> when it panics: rev_len[rec] past the end of rev_len, len - 1
\* with len = 0 (an overflow panic, or a wrapped k that runs the swaps out of
\* qual), or a record that ends past qual.
RECURSIVE reverse_loop(_, _, _, _, _)
reverse_loop(qual, qual_len, rev_len, rec, i) ==
    IF ~(i < qual_len)
    THEN <<qual>>
    ELSE IF rec >= Len(rev_len)
         THEN << >>
         ELSE LET rev == rev_len[rec + 1][1]
                  len == rev_len[rec + 1][2]
                  reversed == IF rev
                              THEN IF len = 0
                                   THEN << >>
                                   ELSE reverse_record(qual, i, 0, len - 1)
                              ELSE <<qual>>
              IN  IF ~IsSome(reversed)
                  THEN << >>
                  ELSE reverse_loop(reversed[1], qual_len, rev_len, rec + 1, i + len)

reverse_qualities(qual, qual_len, rev_len) ==
    reverse_loop(qual, qual_len, rev_len, 0, 0)

\* dst[idx] = val; written collects the indices stored to.
store(mem, idx, val) ==
    [dst |-> [mem.dst EXCEPT ![idx + 1] = val],
     written |-> mem.written \cup {idx}]

\* A copy that takes the bytes from the start of dst: dst[i + j] = dst[j].
RECURSIVE dup_copy_from_start(_, _, _, _)
dup_copy_from_start(mem, i, rec_len, j) ==
    IF j >= rec_len
    THEN mem
    ELSE dup_copy_from_start(store(mem, i + j, mem.dst[j + 1]), i, rec_len, j + 1)

\* The copy of a duplicate record: dst[i + j] = dst[i + j - rec_len] for
\* j in 0 .. rec_len - 1.
RECURSIVE dup_copy(_, _, _, _)
dup_copy(mem, i, rec_len, j) ==
    IF j >= rec_len
    THEN mem
    ELSE dup_copy(store(mem, i + j, mem.dst[i + j - rec_len + 1]), i, rec_len, j + 1)

\* The copy indexes outside dst (or underflows i + j - rec_len).
dup_copy_panics(i, rec_len, buf_len) ==
    rec_len > 0 /\ (i < rec_len \/ i + rec_len > buf_len)

\* ------------------------------------------------------------------------
\* noodles-cram: codecs/rans/decode.rs
\* ------------------------------------------------------------------------
\* Order::try_from(u8): << >> stands for the error.
Order_try_from(n) ==
    CASE n = 0 -> <<"Zero">>
      [] n = 1 -> <<"One">>
      [] OTHER -> << >>

\* ReadBytesExt::read_u32::<LittleEndian> on four bytes.
read_u32_le(b) == b[1] + 256 * b[2] + 65536 * b[3] + 16777216 * b[4]

\* read_header on the bytes of src: the header read, or the error and the
\* number of bytes consumed before it.
read_header_swapped(src) ==
    IF Len(src) < 1
    THEN [ok |-> FALSE, error |-> "UnexpectedEof", pos |-> 0]
    ELSE IF ~IsSome(Order_try_from(src[1]))
    THEN [ok |-> FALSE, error |-> "InvalidData", pos |-> 1]
    ELSE IF Len(src) < 5
    THEN [ok |-> FALSE, error |-> "UnexpectedEof", pos |-> 1]
    ELSE IF Len(src) < 9
    THEN [ok |-> FALSE, error |-> "UnexpectedEof", pos |-> 5]
    ELSE [ok |-> TRUE,
          order |-> Order_try_from(src[1])[1],
          compressed_len |-> read_u32_le(SubSeq(src, 6, 9)),
          data_len |-> read_u32_le(SubSeq(src, 2, 5)),
          pos |-> 9]

read_header(src) ==
    IF Len(src) < 1
    THEN [ok |-> FALSE, error |-> "UnexpectedEof", pos |-> 0]
    ELSE IF ~IsSome(Order_try_from(src[1]))
    THEN [ok |-> FALSE, error |-> "InvalidData", pos |-> 1]
    ELSE IF Len(src) < 5
    THEN [ok |-> FALSE, error |-> "UnexpectedEof", pos |-> 1]
    ELSE IF Len(src) < 9
    THEN [ok |-> FALSE, error |-> "UnexpectedEof", pos |-> 5]
    ELSE [ok |-> TRUE,
          order |-> Order_try_from(src[1])[1],
          compressed_len |-> read_u32_le(SubSeq(src, 2, 5)),
          data_len |-> read_u32_le(SubSeq(src, 6, 9)),
          pos |-> 9]

\* order_0::decode and order_1::decode returning Ok: every byte of the output
\* slice is overwritten with a decoded symbol; the slice keeps its length.
order_decode(output, symbols) == [k \in 1 .. Len(output) |-> symbols[k]]

\* A rans_renorm that shifts the state by 7 bits.
RECURSIVE rans_renorm_shift_7(_, _, _)
rans_renorm_shift_7(src, pos, r) ==
    IF r >= 8388608
    THEN [kind |-> "Ok", r |-> r, pos |-> pos]
    ELSE IF pos >= Len(src)
         THEN [kind |-> "Err", error |-> "UnexpectedEof", pos |-> pos]
         ELSE rans_renorm_shift_7(src, pos + 1, (r * 128) + src[pos + 1])

\* rans_renorm(reader, r), the reader standing at byte pos of src: while
\* r < (1 << 23), r = (r << 8) + read_u8()?. r << 8 is r * 256 for r below
\* 2^24, and the sum stays below 2^31.
RECURSIVE rans_renorm(_, _, _)
rans_renorm(src, pos, r) ==
    IF r >= 8388608
    THEN [kind |-> "Ok", r |-> r, pos |-> pos]
    ELSE IF pos >= Len(src)
         THEN [kind |-> "Err", error |-> "UnexpectedEof", pos |-> pos]
         ELSE rans_renorm(src, pos + 1, (r * 256) + src[pos + 1])

\* ------------------------------------------------------------------------
\* Reference sequence context: construction and the update operation
\* ------------------------------------------------------------------------
CtxInit ==
    /\ context0 \in Contexts
    /\ context = context0
    /\ updates = << >>

Update ==
    /\ Len(updates) < MaxUpdates
    /\ \E id \in Option(RefIds), s \in Option(Positions), e \in Option(Positions) :
          /\ context' = update(context, id, s, e)
          /\ updates' = Append(updates, [id |-> id, start |-> s, end |-> e])
    /\ UNCHANGED context0
    /\ UNCHANGED <<records, reference_sequence_context, slice, add_result,
                 sequences, digests, values, bufs, fqz_in, fq, rans_in,
                 rans, file_in, fd, mates_in, mates, rev_in, rev_out,
                 array_in, array, renorm>>

\* ------------------------------------------------------------------------
\* Slice builder: Builder::default, add_record and build
\* ------------------------------------------------------------------------
SliceInit ==
    /\ records = << >>
    /\ reference_sequence_context = CtxNone
    /\ slice = << >>
    /\ add_result = << >>

\* A builder that add_record has filled with unmapped records up to, or to
\* within MaxRecords of, its capacity; every call returned Ok.
SliceFullInit ==
    /\ \E n \in (MAX_RECORD_COUNT - MaxRecords) .. MAX_RECORD_COUNT :
          records = [k \in 1 .. n |-> UnmappedRecord]
    /\ reference_sequence_context = CtxNone
    /\ slice = << >>
    /\ add_result = [kind |-> "Ok", record |-> UnmappedRecord]

\* The records offered to the next add_record: any record while the builder
\* holds few, the sample records once it is near its capacity.
OfferedRecords ==
    IF Len(records) < MaxRecords THEN RecordInputs ELSE SampleRecords

\* add_record returning Ok: the builder is not full. The calls made are
\* the first MaxRecords ones and those within MaxRecords of the capacity.
AddRecord ==
    /\ slice = << >>
    /\ \/ Len(records) < MaxRecords
       \/ Len(records) >= MAX_RECORD_COUNT - MaxRecords
    /\ ~is_full(records)
    /\ \E record \in OfferedRecords :
          /\ reference_sequence_context' =
                IF Len(records) = 0
                THEN IF IsSome(record.reference_sequence_id)
                        /\ IsSome(record.alignment_start)
                        /\ IsSome(record.alignment_end)
                     THEN some(record.reference_sequence_id[1],
                               record.alignment_start[1],
                               record.alignment_end[1])
                     ELSE CtxNone
                ELSE update(reference_sequence_context,
                            record.reference_sequence_id,
                            record.alignment_start,
                            record.alignment_end)
          /\ records' = Append(records, record)
          /\ add_result' = [kind |-> "Ok", record |-> record]
    /\ UNCHANGED slice
    /\ UNCHANGED <<context, context0, updates, sequences, digests, values,
                 bufs, fqz_in, fq, rans_in, rans, file_in, fd, mates_in,
                 mates, rev_in, rev_out, array_in, array, renorm>>

\* add_record returning Err(AddRecordError::SliceFull(record)).
AddRecordFull ==
    /\ slice = << >>
    /\ is_full(records)
    /\ \E record \in OfferedRecords :
          add_result' = [kind |-> "SliceFull", record |-> record]
    /\ UNCHANGED <<records, reference_sequence_context, slice>>
    /\ UNCHANGED <<context, context0, updates, sequences, digests, values,
                 bufs, fqz_in, fq, rans_in, rans, file_in, fd, mates_in,
                 mates, rev_in, rev_out, array_in, array, renorm>>

\* build returning Ok(slice): set_mates has run over the records and the
\* header carries the context, the record count and the reference MD5.
BuildOk ==
    /\ slice = << >>
    /\ ~set_mates_panics(records)
    /\ IsSome(build_reference_md5(reference_sequence_context))
    /\ records' = set_mates(records)
    /\ slice' = [kind |-> "Slice",
                 header |->
                    [reference_sequence_context |-> reference_sequence_context,
                     record_count |-> Len(records),
                     reference_md5 |->
                        build_reference_md5(reference_sequence_context)[1]]]
    /\ UNCHANGED <<reference_sequence_context, add_result>>
    /\ UNCHANGED <<context, context0, updates, sequences, digests, values,
                 bufs, fqz_in, fq, rans_in, rans, file_in, fd, mates_in,
                 mates, rev_in, rev_out, array_in, array, renorm>>

\* build returning Err: writing a record failed after set_mates.
BuildErr ==
    /\ slice = << >>
    /\ ~set_mates_panics(records)
    /\ records' = set_mates(records)
    /\ slice' = [kind |-> "Err"]
    /\ UNCHANGED <<reference_sequence_context, add_result>>
    /\ UNCHANGED <<context, context0, updates, sequences, digests, values,
                 bufs, fqz_in, fq, rans_in, rans, file_in, fd, mates_in,
                 mates, rev_in, rev_out, array_in, array, renorm>>

\* build panicking: in set_mates on an empty list, or on a reference sequence
\* that is missing or shorter than the context's span.
BuildPanic ==
    /\ slice = << >>
    /\ \/ set_mates_panics(records)
       \/ ~IsSome(build_reference_md5(reference_sequence_context))
    /\ records' = IF set_mates_panics(records) THEN records ELSE set_mates(records)
    /\ slice' = [kind |-> "Panic"]
    /\ UNCHANGED <<reference_sequence_context, add_result>>
    /\ UNCHANGED <<context, context0, updates, sequences, digests, values,
                 bufs, fqz_in, fq, rans_in, rans, file_in, fd, mates_in,
                 mates, rev_in, rev_out, array_in, array, renorm>>

\* ------------------------------------------------------------------------
\* Normalized reference MD5 of two byte sequences
\* ------------------------------------------------------------------------
ByteSamples == {10, 32, 33, 65, 97, 122, 126, 127}

DigestInit ==
    /\ sequences \in SeqsUpTo(ByteSamples, MaxSeqLen) \X SeqsUpTo(ByteSamples, MaxSeqLen)
    /\ digests = << >>

Digest ==
    /\ digests = << >>
    /\ digests' = <<calculate_normalized_sequence_digest(sequences[1]),
                    calculate_normalized_sequence_digest(sequences[2])>>
    /\ UNCHANGED sequences
    /\ UNCHANGED <<context, context0, updates, records,
                 reference_sequence_context, slice, add_result, values,
                 bufs, fqz_in, fq, rans_in, rans, file_in, fd, mates_in,
                 mates, rev_in, rev_out, array_in, array, renorm>>

\* ------------------------------------------------------------------------
\* BCF typed values: write_value on two values
\* ------------------------------------------------------------------------
BcfInit ==
    /\ values \in Values \X Values
    /\ bufs = [state |-> "pending", out |-> << >>]

\* write_value on each of the two values, into an empty buffer each.
WriteValue ==
    /\ bufs.state = "pending"
    /\ IsSome(write_value(values[1]))
    /\ IsSome(write_value(values[2]))
    /\ bufs' = [state |-> "written",
                out |-> <<write_value(values[1])[1], write_value(values[2])[1]>>]
    /\ UNCHANGED values
    /\ UNCHANGED <<context, context0, updates, records,
                 reference_sequence_context, slice, add_result, sequences,
                 digests, fqz_in, fq, rans_in, rans, file_in, fd, mates_in,
                 mates, rev_in, rev_out, array_in, array, renorm>>

\* write_value reaching todo!() on a value it does not support.
WriteValueTodo ==
    /\ bufs.state = "pending"
    /\ \/ ~IsSome(write_value(values[1]))
       \/ ~IsSome(write_value(values[2]))
    /\ bufs' = [state |-> "panic", out |-> << >>]
    /\ UNCHANGED values
    /\ UNCHANGED <<context, context0, updates, records,
                 reference_sequence_context, slice, add_result, sequences,
                 digests, fqz_in, fq, rans_in, rans, file_in, fd, mates_in,
                 mates, rev_in, rev_out, array_in, array, renorm>>

\* ------------------------------------------------------------------------
\* fqzcomp: fqz_decode, one action per pass of its loop
\* ------------------------------------------------------------------------
\* The loop condition of fqz_decode.
loop_continues_short(i, buf_len) == i + 1 < buf_len

loop_continues(i, buf_len) == i < buf_len

\* A parameter set as fqz_decode_params leaves it: no length read yet.
Parameter(flags, seed) ==
    [flags |-> flags, context |-> seed, first_len |-> 1, last_len |-> 0,
     q_bits |-> 2, q_shift |-> 1, q_loc |-> 0, s_loc |-> 3, p_loc |-> 4,
     d_loc |-> 6,
     q_tab |-> [q \in 1 .. (MaxSym + 1) |-> q - 1],
     q_map |-> [q \in 1 .. (MaxSym + 1) |-> 33 + q],
     p_tab |-> <<0, 1, 1, 2>>,
     d_tab |-> <<0, 1, 2>>]

SingleParameters(gflags, flags) ==
    [gflags |-> gflags, max_sel |-> 0, max_sym |-> MaxSym, s_tab |-> <<0>>,
     params |-> <<Parameter(flags, 0)>>]

\* Two parameter sets chosen by the selector through s_tab; only the first
\* one has DO_DEDUP and only the second one reads a length per record.
MultiParameters(gflags) ==
    [gflags |-> gflags \cup {MULTI_PARAM, HAVE_S_TAB}, max_sel |-> 1,
     max_sym |-> MaxSym, s_tab |-> <<0, 1>>,
     params |-> <<Parameter({DO_DEDUP, HAVE_QMAP, DO_SEL}, 0),
                  Parameter({DO_LEN, HAVE_PTAB, HAVE_DTAB}, 65535)>>]

ParametersInputs ==
    {SingleParameters(g, f) :
        g \in {{}, {DO_REV}},
        f \in {{DO_LEN, DO_DEDUP}, {DO_LEN, HAVE_DTAB}, {DO_DEDUP, HAVE_PTAB}, {HAVE_QMAP}}}
        \cup {MultiParameters(g) : g \in {{}, {DO_REV}}}

\* What the models give during one pass of the loop: the fields of a record
\* header are decoded only by fqz_new_record, in a pass that starts a record,
\* the reverse bit only with DO_REV, the duplicate bit only with DO_DEDUP,
\* and no quality symbol in the pass of a duplicate.
DecodedInputs(parameters) ==
    IF fq.record.pos = 0
    THEN {d \in [sel : 0 .. parameters.max_sel,
                 len : {<<b0, 0, 0, 0>> : b0 \in 0 .. MaxRecLen},
                 rev : IF DO_REV \in parameters.gflags THEN BOOLEAN ELSE {FALSE},
                 dup : IF \E k \in 1 .. Len(parameters.params) :
                              DO_DEDUP \in parameters.params[k].flags
                       THEN BOOLEAN
                       ELSE {FALSE},
                 q : 0 .. parameters.max_sym] :
            d.dup => d.q = 0}
    ELSE [sel : {0},
          len : {<<0, 0, 0, 0>>},
          rev : {FALSE},
          dup : {FALSE},
          q : 0 .. parameters.max_sym]

\* What has been decoded so far, kept beside the locals: per parameter set
\* the number of records started with it (uses), of lengths decoded for it
\* (len_reads) and the record lengths it gave (rec_lens); the number of
\* quality symbols decoded since the last record header (nq); the symbol
\* decoded last (q) and the context it was decoded under (used); the line
\* that panicked (cause).
HistStart(parameters) ==
    [uses |-> [k \in 1 .. Len(parameters.params) |-> 0],
     len_reads |-> [k \in 1 .. Len(parameters.params) |-> 0],
     rec_lens |-> [k \in 1 .. Len(parameters.params) |-> {}],
     nq |-> 0, q |-> << >>, used |-> << >>, cause |-> ""]

FqStart ==
    [pc |-> "start", i |-> 0, record |-> Record_default, dst |-> << >>,
     written |-> {}, x |-> 0, ctx |-> 0, rev_len |-> << >>,
     params |-> SingleParameters({}, {}),
     hist |-> HistStart(SingleParameters({}, {}))]

FqzInit ==
    /\ fqz_in \in [buf_len : 0 .. MaxBufLen, params : ParametersInputs]
    /\ fq = FqStart

\* Lines 22 to 39: the length and the parameters are read, the models and
\* the range coder created, dst allocated and filled with 0.
FqzBegin ==
    /\ fq.pc = "start"
    /\ fq' = [FqStart EXCEPT
                !.pc = "loop",
                !.dst = [k \in 1 .. fqz_in.buf_len |-> 0],
                !.params = fqz_in.params,
                !.hist = HistStart(fqz_in.params)]
    /\ UNCHANGED fqz_in
    /\ UNCHANGED <<context, context0, updates, records,
                 reference_sequence_context, slice, add_result, sequences,
                 digests, values, bufs, rans_in, rans, file_in, fd,
                 mates_in, mates, rev_in, rev_out, array_in, array, renorm>>

\* Any read of the stream may fail, before the loop or in a pass of it.
FqzErr ==
    /\ \/ fq.pc = "start"
       \/ fq.pc = "loop" /\ loop_continues(fq.i, fqz_in.buf_len)
    /\ fq' = [fq EXCEPT !.pc = "err"]
    /\ UNCHANGED fqz_in
    /\ UNCHANGED <<context, context0, updates, records,
                 reference_sequence_context, slice, add_result, sequences,
                 digests, values, bufs, rans_in, rans, file_in, fd,
                 mates_in, mates, rev_in, rev_out, array_in, array, renorm>>

\* The state of a pass after its `if record.pos == 0` has called
\* fqz_new_record, or the state as it was when the record is not finished.
Entered(decoded) ==
    IF fq.record.pos = 0
    THEN fqz_new_record(fq.params, fq.record, fq.rev_len, decoded)
    ELSE [parameters |-> fq.params, record |-> fq.record,
          rev_len |-> fq.rev_len, reads_len |-> FALSE, x |-> fq.x]

\* A pass of the loop can run; at most MaxRec records are started.
InLoop ==
    /\ fq.pc = "loop"
    /\ loop_continues(fq.i, fqz_in.buf_len)
    /\ fq.record.pos = 0 => fq.record.rec < MaxRec

TakesDup(e) == fq.record.pos = 0 /\ e.record.is_dup

\* hist after a pass that entered as e and then copied a duplicate record
\* (kind "dup") or decoded the quality symbol decoded.q (kind "qual"). The
\* symbol is decoded under ctx, which line 63 has set to the context of the
\* parameter set when the pass started a record.
Seen(e, decoded, kind) ==
    LET header == fq.record.pos = 0
        k == e.x + 1
    IN  [fq.hist EXCEPT
            !.uses[k] = IF header THEN @ + 1 ELSE @,
            !.len_reads[k] = IF header /\ e.reads_len THEN @ + 1 ELSE @,
            !.rec_lens[k] = IF header THEN @ \cup {e.record.rec_len} ELSE @,
            !.nq = IF kind = "dup" THEN 0 ELSE IF header THEN 1 ELSE @ + 1,
            !.q = IF kind = "dup" THEN << >> ELSE <<decoded.q>>,
            !.used = IF kind = "dup"
                     THEN << >>
                     ELSE <<IF header
                            THEN e.parameters.params[k].context
                            ELSE fq.ctx>>]

\* A pass that starts a record flagged duplicate: the previous rec_len bytes
\* are copied, i advances by rec_len and pos is reset.
FqzDup ==
    /\ InLoop
    /\ \E decoded \in DecodedInputs(fq.params) :
          LET e == Entered(decoded) IN
          /\ TakesDup(e)
          /\ ~dup_copy_panics(fq.i, e.record.rec_len, fqz_in.buf_len)
          /\ LET mem == dup_copy([dst |-> fq.dst, written |-> fq.written],
                                 fq.i, e.record.rec_len, 0)
             IN  fq' = [fq EXCEPT
                          !.params = e.parameters,
                          !.record = [e.record EXCEPT !.pos = 0],
                          !.rev_len = e.rev_len,
                          !.x = e.x,
                          !.hist = Seen(e, decoded, "dup"),
                          !.dst = mem.dst,
                          !.written = mem.written,
                          !.i = @ + e.record.rec_len]
    /\ UNCHANGED fqz_in
    /\ UNCHANGED <<context, context0, updates, records,
                 reference_sequence_context, slice, add_result, sequences,
                 digests, values, bufs, rans_in, rans, file_in, fd,
                 mates_in, mates, rev_in, rev_out, array_in, array, renorm>>

\* The copy of a duplicate record indexes outside dst: a panic.
FqzDupPanic ==
    /\ InLoop
    /\ \E decoded \in DecodedInputs(fq.params) :
          LET e == Entered(decoded) IN
          /\ TakesDup(e)
          /\ dup_copy_panics(fq.i, e.record.rec_len, fqz_in.buf_len)
          /\ fq' = [fq EXCEPT
                      !.pc = "panic",
                      !.params = e.parameters,
                      !.record = e.record,
                      !.rev_len = e.rev_len,
                      !.x = e.x,
                      !.hist = [Seen(e, decoded, "dup") EXCEPT !.cause = "dup"]]
    /\ UNCHANGED fqz_in
    /\ UNCHANGED <<context, context0, updates, records,
                 reference_sequence_context, slice, add_result, sequences,
                 digests, values, bufs, rans_in, rans, file_in, fd,
                 mates_in, mates, rev_in, rev_out, array_in, array, renorm>>

\* The locals after a pass that decodes one quality symbol, up to and
\* including i += 1; pos is still to be decremented.
AfterQual(e, decoded) ==
    LET param == e.parameters.params[e.x + 1]
        q == decoded.q
        mem == store([dst |-> fq.dst, written |-> fq.written], fq.i,
                     IF HAVE_QMAP \in param.flags THEN param.q_map[q + 1] ELSE q)
        u == fqz_update_context(param, q, e.record)
    IN  [fq EXCEPT
            !.params = e.parameters,
            !.record = u.record,
            !.rev_len = e.rev_len,
            !.x = e.x,
            !.hist = Seen(e, decoded, "qual"),
            !.ctx = u.ctx,
            !.dst = mem.dst,
            !.written = mem.written,
            !.i = @ + 1]

\* A pass that decodes one quality symbol of a record with pos > 0.
FqzQual ==
    /\ InLoop
    /\ \E decoded \in DecodedInputs(fq.params) :
          LET e == Entered(decoded) IN
          /\ ~TakesDup(e)
          /\ e.record.pos > 0
          /\ fq' = [AfterQual(e, decoded) EXCEPT !.record.pos = @ - 1]
    /\ UNCHANGED fqz_in
    /\ UNCHANGED <<context, context0, updates, records,
                 reference_sequence_context, slice, add_result, sequences,
                 digests, values, bufs, rans_in, rans, file_in, fd,
                 mates_in, mates, rev_in, rev_out, array_in, array, renorm>>

\* A pass that starts a record of length 0 that is not a duplicate: a symbol
\* is decoded and pos -= 1 overflows. Without overflow checks pos wraps.
FqzQualWrap ==
    /\ InLoop
    /\ \E decoded \in DecodedInputs(fq.params) :
          LET e == Entered(decoded) IN
          /\ ~TakesDup(e)
          /\ e.record.pos = 0
          /\ fq' = [AfterQual(e, decoded) EXCEPT !.record.pos = USIZE_MAX]
    /\ UNCHANGED fqz_in
    /\ UNCHANGED <<context, context0, updates, records,
                 reference_sequence_context, slice, add_result, sequences,
                 digests, values, bufs, rans_in, rans, file_in, fd,
                 mates_in, mates, rev_in, rev_out, array_in, array, renorm>>

\* The same pass with overflow checks: pos -= 1 panics.
FqzQualPanic ==
    /\ InLoop
    /\ \E decoded \in DecodedInputs(fq.params) :
          LET e == Entered(decoded) IN
          /\ ~TakesDup(e)
          /\ e.record.pos = 0
          /\ fq' = [AfterQual(e, decoded) EXCEPT !.pc = "panic",
                                                  !.hist.cause = "pos"]
    /\ UNCHANGED fqz_in
    /\ UNCHANGED <<context, context0, updates, records,
                 reference_sequence_context, slice, add_result, sequences,
                 digests, values, bufs, rans_in, rans, file_in, fd,
                 mates_in, mates, rev_in, rev_out, array_in, array, renorm>>

\* The loop has ended: the qualities are reversed if DO_REV and returned.
FqzFinish ==
    /\ fq.pc = "loop"
    /\ ~loop_continues(fq.i, fqz_in.buf_len)
    /\ LET out == IF DO_REV \in fq.params.gflags
                  THEN reverse_qualities(fq.dst, fqz_in.buf_len, fq.rev_len)
                  ELSE <<fq.dst>>
       IN  /\ IsSome(out)
           /\ fq' = [fq EXCEPT !.pc = "ok", !.dst = out[1]]
    /\ UNCHANGED fqz_in
    /\ UNCHANGED <<context, context0, updates, records,
                 reference_sequence_context, slice, add_result, sequences,
                 digests, values, bufs, rans_in, rans, file_in, fd,
                 mates_in, mates, rev_in, rev_out, array_in, array, renorm>>

\* The loop has ended and reverse_qualities panics.
FqzFinishPanic ==
    /\ fq.pc = "loop"
    /\ ~loop_continues(fq.i, fqz_in.buf_len)
    /\ DO_REV \in fq.params.gflags
    /\ ~IsSome(reverse_qualities(fq.dst, fqz_in.buf_len, fq.rev_len))
    /\ fq' = [fq EXCEPT !.pc = "panic", !.hist.cause = "rev"]
    /\ UNCHANGED fqz_in
    /\ UNCHANGED <<context, context0, updates, records,
                 reference_sequence_context, slice, add_result, sequences,
                 digests, values, bufs, rans_in, rans, file_in, fd,
                 mates_in, mates, rev_in, rev_out, array_in, array, renorm>>

\* ------------------------------------------------------------------------
\* rANS 4x8: rans_decode
\* ------------------------------------------------------------------------
OrderBytes == {0, 1, 2, 255}

CompressedLens == {0, 37, 256}

DataLens == (0 .. MaxDataLen) \cup {256}

\* The 9 bytes of a header.
u32_le_bytes(n) == <<n % 256, (n \div 256) % 256, (n \div 65536) % 256, 0>>

HeaderBytes(order, compressed_len, data_len) ==
    <<order>> \o u32_le_bytes(compressed_len) \o u32_le_bytes(data_len)

\* The streams: a header, whole or cut short.
RansStreams ==
    {SubSeq(HeaderBytes(o, c, d), 1, n) :
        o \in OrderBytes, c \in CompressedLens, d \in DataLens, n \in 0 .. 9}

RansStart ==
    [pc |-> "start", pos |-> 0, order |-> << >>, data_len |-> 0,
     allocated |-> FALSE, buf |-> << >>, error |-> << >>]

RansInit ==
    /\ rans_in \in RansStreams
    /\ rans = RansStart

\* read_header returns Ok and buf is allocated: data_len bytes of 0.
RansReadHeader ==
    /\ rans.pc = "start"
    /\ read_header(rans_in).ok
    /\ LET header == read_header(rans_in) IN
       rans' = [rans EXCEPT
                  !.pc = "decode",
                  !.pos = header.pos,
                  !.order = <<header.order>>,
                  !.data_len = header.data_len,
                  !.allocated = TRUE,
                  !.buf = [k \in 1 .. header.data_len |-> 0]]
    /\ UNCHANGED rans_in
    /\ UNCHANGED <<context, context0, updates, records,
                 reference_sequence_context, slice, add_result, sequences,
                 digests, values, bufs, fqz_in, fq, file_in, fd, mates_in,
                 mates, rev_in, rev_out, array_in, array, renorm>>

\* read_header returns an error, which rans_decode returns.
RansReadHeaderErr ==
    /\ rans.pc = "start"
    /\ ~read_header(rans_in).ok
    /\ rans' = [rans EXCEPT
                  !.pc = "err",
                  !.pos = read_header(rans_in).pos,
                  !.error = <<read_header(rans_in).error>>]
    /\ UNCHANGED rans_in
    /\ UNCHANGED <<context, context0, updates, records,
                 reference_sequence_context, slice, add_result, sequences,
                 digests, values, bufs, fqz_in, fq, file_in, fd, mates_in,
                 mates, rev_in, rev_out, array_in, array, renorm>>

\* The decoder of the order read returns Ok and rans_decode returns buf.
RansDecodeOrder0 ==
    /\ rans.pc = "decode"
    /\ rans.order = <<"Zero">>
    /\ \E sym \in {0, 110} :
          rans' = [rans EXCEPT
                     !.pc = "ok",
                     !.buf = order_decode(rans.buf, [k \in 1 .. Len(rans.buf) |-> sym])]
    /\ UNCHANGED rans_in
    /\ UNCHANGED <<context, context0, updates, records,
                 reference_sequence_context, slice, add_result, sequences,
                 digests, values, bufs, fqz_in, fq, file_in, fd, mates_in,
                 mates, rev_in, rev_out, array_in, array, renorm>>

RansDecodeOrder1 ==
    /\ rans.pc = "decode"
    /\ rans.order = <<"One">>
    /\ \E sym \in {0, 110} :
          rans' = [rans EXCEPT
                     !.pc = "ok",
                     !.buf = order_decode(rans.buf, [k \in 1 .. Len(rans.buf) |-> sym])]
    /\ UNCHANGED rans_in
    /\ UNCHANGED <<context, context0, updates, records,
                 reference_sequence_context, slice, add_result, sequences,
                 digests, values, bufs, fqz_in, fq, file_in, fd, mates_in,
                 mates, rev_in, rev_out, array_in, array, renorm>>

\* The decoder returns an error, which rans_decode returns.
RansDecodeErr ==
    /\ rans.pc = "decode"
    /\ \E e \in {"UnexpectedEof", "InvalidData"} :
          rans' = [rans EXCEPT !.pc = "err", !.error = <<e>>]
    /\ UNCHANGED rans_in
    /\ UNCHANGED <<context, context0, updates, records,
                 reference_sequence_context, slice, add_result, sequences,
                 digests, values, bufs, fqz_in, fq, file_in, fd, mates_in,
                 mates, rev_in, rev_out, array_in, array, renorm>>

\* ------------------------------------------------------------------------
\* rANS 4x8: rans_renorm on its own
\* ------------------------------------------------------------------------
\* The states given: 0, small ones, the ones around 2^15 and 2^23, and the
\* largest the model holds; the bytes that follow in the source.
RenormInit ==
    renorm \in
        [r : {0, 1, 127, 128, 32767, 32768, 8388607, 8388608, 8388609,
              2147483647},
         src : UNION {[1 .. n -> {0, 1, 128, 255}] : n \in 0 .. MaxRenormLen},
         state : {"pending"},
         out : {<< >>}]

\* rans_renorm returning Ok(r).
RansRenormOk ==
    /\ renorm.state = "pending"
    /\ rans_renorm(renorm.src, 0, renorm.r).kind = "Ok"
    /\ renorm' = [renorm EXCEPT
                    !.state = "ok",
                    !.out = rans_renorm(renorm.src, 0, renorm.r)]
    /\ UNCHANGED <<context, context0, updates, records,
                 reference_sequence_context, slice, add_result, sequences,
                 digests, values, bufs, fqz_in, fq, rans_in, rans, file_in,
                 fd, mates_in, mates, rev_in, rev_out, array_in, array>>

\* read_u8 returning an error, which rans_renorm returns.
RansRenormErr ==
    /\ renorm.state = "pending"
    /\ rans_renorm(renorm.src, 0, renorm.r).kind = "Err"
    /\ renorm' = [renorm EXCEPT
                    !.state = "err",
                    !.out = rans_renorm(renorm.src, 0, renorm.r)]
    /\ UNCHANGED <<context, context0, updates, records,
                 reference_sequence_context, slice, add_result, sequences,
                 digests, values, bufs, fqz_in, fq, rans_in, rans, file_in,
                 fd, mates_in, mates, rev_in, rev_out, array_in, array>>

\* ------------------------------------------------------------------------
\* noodles-cram: async/reader.rs, read_file_definition
\* ------------------------------------------------------------------------
\* crate::MAGIC_NUMBER, the bytes of b"CRAM".
MAGIC_NUMBER == <<67, 82, 65, 77>>

\* The length of the file ID.
FILE_ID_LEN == 20

\* AsyncReadExt::read_exact of n bytes from position pos of src: the bytes
\* and the position after them, or UnexpectedEof with src consumed.
read_exact(src, pos, n) ==
    IF Len(src) - pos >= n
    THEN [ok |-> TRUE, bytes |-> SubSeq(src, pos + 1, pos + n), pos |-> pos + n]
    ELSE [ok |-> FALSE, error |-> "UnexpectedEof", pos |-> Len(src)]

\* read_magic_number accepting any four bytes that start with "CRA".
read_magic_number_three_bytes(src, pos) ==
    LET magic == read_exact(src, pos, 4) IN
    IF ~magic.ok
    THEN magic
    ELSE IF SubSeq(magic.bytes, 1, 3) = SubSeq(MAGIC_NUMBER, 1, 3)
         THEN [ok |-> TRUE, pos |-> magic.pos]
         ELSE [ok |-> FALSE, error |-> "InvalidData", pos |-> magic.pos]

read_magic_number(src, pos) ==
    LET magic == read_exact(src, pos, 4) IN
    IF ~magic.ok
    THEN magic
    ELSE IF magic.bytes = MAGIC_NUMBER
         THEN [ok |-> TRUE, pos |-> magic.pos]
         ELSE [ok |-> FALSE, error |-> "InvalidData", pos |-> magic.pos]

\* read_format: Version::new(major, minor) of the next two bytes.
read_format(src, pos) ==
    LET major == read_exact(src, pos, 1) IN
    IF ~major.ok
    THEN major
    ELSE LET minor == read_exact(src, major.pos, 1) IN
         IF ~minor.ok
         THEN minor
         ELSE [ok |-> TRUE,
               version |-> [major |-> major.bytes[1], minor |-> minor.bytes[1]],
               pos |-> minor.pos]

read_file_id(src, pos) ==
    LET file_id == read_exact(src, pos, FILE_ID_LEN) IN
    IF ~file_id.ok
    THEN file_id
    ELSE [ok |-> TRUE, file_id |-> file_id.bytes, pos |-> file_id.pos]

\* Reader::read_file_definition on a reader at the start of src.
read_file_definition(src) ==
    LET magic == read_magic_number(src, 0) IN
    IF ~magic.ok
    THEN magic
    ELSE LET format == read_format(src, magic.pos) IN
         IF ~format.ok
         THEN format
         ELSE LET file_id == read_file_id(src, format.pos) IN
              IF ~file_id.ok
              THEN file_id
              ELSE [ok |-> TRUE,
                    file_definition |->
                        [format |-> format.version, file_id |-> file_id.file_id],
                    pos |-> file_id.pos]

\* The streams read: a magic number, two version bytes, a file ID and one
\* byte of what follows, cut off after any number of bytes.
FileStreams ==
    {SubSeq(magic \o <<major, minor>> \o file_id \o <<15>>, 1, n) :
        magic \in {MAGIC_NUMBER, <<66, 65, 77, 1>>, <<67, 82, 65, 78>>,
                   <<99, 82, 65, 77>>},
        major \in {2, 3, 4},
        minor \in {0, 1},
        file_id \in {[k \in 1 .. FILE_ID_LEN |-> 0],
                     [k \in 1 .. FILE_ID_LEN |-> (37 * k) % 256]},
        n \in 0 .. (FILE_ID_LEN + 7)}

FdStart == [pc |-> "start", pos |-> 0, result |-> << >>, error |-> << >>]

FileInit ==
    /\ file_in \in FileStreams
    /\ fd = FdStart

\* read_file_definition returning Ok(FileDefinition::new(format, file_id)).
ReadFileDefinitionOk ==
    /\ fd.pc = "start"
    /\ LET r == read_file_definition(file_in) IN
       /\ r.ok
       /\ fd' = [pc |-> "ok", pos |-> r.pos, result |-> <<r.file_definition>>,
                 error |-> << >>]
    /\ UNCHANGED file_in
    /\ UNCHANGED <<context, context0, updates, records,
                 reference_sequence_context, slice, add_result, sequences,
                 digests, values, bufs, fqz_in, fq, rans_in, rans, mates_in,
                 mates, rev_in, rev_out, array_in, array, renorm>>

\* read_file_definition returning the error of one of its three reads.
ReadFileDefinitionErr ==
    /\ fd.pc = "start"
    /\ LET r == read_file_definition(file_in) IN
       /\ ~r.ok
       /\ fd' = [pc |-> "err", pos |-> r.pos, result |-> << >>,
                 error |-> <<r.error>>]
    /\ UNCHANGED file_in
    /\ UNCHANGED <<context, context0, updates, records,
                 reference_sequence_context, slice, add_result, sequences,
                 digests, values, bufs, fqz_in, fq, rans_in, rans, mates_in,
                 mates, rev_in, rev_out, array_in, array, renorm>>

\* ------------------------------------------------------------------------
\* Slice builder: set_mates on its own
\* ------------------------------------------------------------------------
\* The records given to set_mates, as record::Builder builds them: with or
\* without a read name, and with the CRAM flags and the distance to the next
\* fragment either left at their defaults or set by the caller.
MateRecords ==
    {[UnmappedRecord EXCEPT
        !.is_segmented = seg,
        !.is_secondary = sec,
        !.read_name = name,
        !.cram_bit_flags = IF preset THEN {HAS_MATE_DOWNSTREAM} ELSE {},
        !.distance_to_next_fragment = IF preset THEN <<0>> ELSE << >>] :
        seg \in BOOLEAN, sec \in BOOLEAN, name \in {<<"r1">>, <<"r2">>, << >>},
        preset \in BOOLEAN}

MatesInit ==
    /\ mates_in \in UNION {[1 .. n -> MateRecords] : n \in 0 .. MaxMates}
    /\ mates = [state |-> "pending", records |-> << >>]

\* set_mates(&mut records) returning.
SetMates ==
    /\ mates.state = "pending"
    /\ ~set_mates_panics(mates_in)
    /\ mates' = [state |-> "done", records |-> set_mates(mates_in)]
    /\ UNCHANGED mates_in
    /\ UNCHANGED <<context, context0, updates, records,
                 reference_sequence_context, slice, add_result, sequences,
                 digests, values, bufs, fqz_in, fq, rans_in, rans, file_in,
                 fd, rev_in, rev_out, array_in, array, renorm>>

\* set_mates on no record: assert!(!records.is_empty()) fails.
SetMatesPanic ==
    /\ mates.state = "pending"
    /\ set_mates_panics(mates_in)
    /\ mates' = [state |-> "panic", records |-> mates_in]
    /\ UNCHANGED mates_in
    /\ UNCHANGED <<context, context0, updates, records,
                 reference_sequence_context, slice, add_result, sequences,
                 digests, values, bufs, fqz_in, fq, rans_in, rans, file_in,
                 fd, rev_in, rev_out, array_in, array, renorm>>

\* ------------------------------------------------------------------------
\* fqzcomp: reverse_qualities on its own
\* ------------------------------------------------------------------------
RevStart == [state |-> "pending", qual |-> << >>, twice |-> << >>]

\* Quality buffers of every length, one of distinct bytes and one of equal
\* ones, and the (rev, len) pairs that fqz_new_record pushes, one per record.
RevInit ==
    /\ rev_in \in
          [qual : {[k \in 1 .. n |-> 33 + k] : n \in 0 .. MaxQualLen}
                    \cup {[k \in 1 .. n |-> 33] : n \in 0 .. MaxQualLen},
           rev_len : UNION {[1 .. n -> BOOLEAN \X (0 .. MaxQualLen)] :
                              n \in 0 .. MaxRevRecs}]
    /\ rev_out = RevStart

\* reverse_qualities(&mut qual, qual.len(), &rev_len) returning; twice is
\* qual after a second call with the same rev_len.
ReverseQualities ==
    /\ rev_out.state = "pending"
    /\ LET once == reverse_qualities(rev_in.qual, Len(rev_in.qual), rev_in.rev_len)
       IN  /\ IsSome(once)
           /\ LET again == reverse_qualities(once[1], Len(once[1]), rev_in.rev_len)
              IN  rev_out' = [state |-> "done", qual |-> once[1], twice |-> again]
    /\ UNCHANGED rev_in
    /\ UNCHANGED <<context, context0, updates, records,
                 reference_sequence_context, slice, add_result, sequences,
                 digests, values, bufs, fqz_in, fq, rans_in, rans, file_in,
                 fd, mates_in, mates, array_in, array, renorm>>

\* reverse_qualities panicking.
ReverseQualitiesPanic ==
    /\ rev_out.state = "pending"
    /\ ~IsSome(reverse_qualities(rev_in.qual, Len(rev_in.qual), rev_in.rev_len))
    /\ rev_out' = [rev_out EXCEPT !.state = "panic"]
    /\ UNCHANGED rev_in
    /\ UNCHANGED <<context, context0, updates, records,
                 reference_sequence_context, slice, add_result, sequences,
                 digests, values, bufs, fqz_in, fq, rans_in, rans, file_in,
                 fd, mates_in, mates, array_in, array, renorm>>

\* ------------------------------------------------------------------------
\* fqzcomp: read_array
\* ------------------------------------------------------------------------
\* runs[j .. j + count - 1] = run, for 0-based j; << >> stands for the panic
\* of an index outside runs.
fill(vec, j, count, val) ==
    IF j + count > Len(vec)
    THEN << >>
    ELSE <<[k \in 1 .. Len(vec) |->
              IF k - 1 >= j /\ k - 1 < j + count THEN val ELSE vec[k]]>>

\* The first loop of read_array, from reader position pos: the run bytes
\* read into runs, or the error of a read past the end of the stream, or the
\* panic of a store past the end of runs.
RECURSIVE read_runs(_, _, _, _, _, _, _)
read_runs(src, pos, n, j, z, last, runs) ==
    IF ~(z < n)
    THEN [kind |-> "Ok", runs |-> runs]
    ELSE IF pos >= Len(src)
    THEN [kind |-> "Err"]
    ELSE LET run == src[pos + 1]
             stored == fill(runs, j, 1, run)
         IN  IF ~IsSome(stored)
             THEN [kind |-> "Panic"]
             ELSE IF run # last
             THEN read_runs(src, pos + 1, n, j + 1, z + run, run, stored[1])
             ELSE IF pos + 1 >= Len(src)
             THEN [kind |-> "Err"]
             ELSE LET copy == src[pos + 2]
                      copied == fill(stored[1], j + 1, copy, run)
                  IN  IF ~IsSome(copied)
                      THEN [kind |-> "Panic"]
                      ELSE read_runs(src, pos + 2, n, j + 1 + copy,
                                     z + run + run * copy, run, copied[1])

\* The inner loop of the second loop: the parts of one run are summed up to
\* and including the first part that is not 255; << >> stands for the panic
\* of an index outside runs.
RECURSIVE run_length(_, _, _)
run_length(runs, j, run_len) ==
    IF j >= Len(runs)
    THEN << >>
    ELSE IF runs[j + 1] # 255
         THEN <<[j |-> j + 1, run_len |-> run_len + runs[j + 1]]>>
         ELSE run_length(runs, j + 1, run_len + 255)

\* The second loop of read_array. i is a u8: i += 1 at 255 panics when the
\* build checks overflow and wraps to 0 when it does not.
RECURSIVE write_codes(_, _, _, _, _, _, _)
write_codes(runs, n, i, j, z, a, checks) ==
    IF ~(z < n)
    THEN [kind |-> "Ok", a |-> a]
    ELSE LET run == run_length(runs, j, 0) IN
         IF ~IsSome(run)
         THEN [kind |-> "Panic"]
         ELSE LET written == fill(a, z, run[1].run_len, i) IN
              IF ~IsSome(written)
              THEN [kind |-> "Panic"]
              ELSE IF i = 255 /\ checks
              THEN [kind |-> "Panic"]
              ELSE write_codes(runs, n, (i + 1) % 256, run[1].j,
                               z + run[1].run_len, written[1], checks)

\* read_array(reader, n) on a reader at the start of src.
read_array(src, n, checks) ==
    LET first == read_runs(src, 0, n, 0, 0, 0, [k \in 1 .. n |-> 0]) IN
    IF first.kind # "Ok"
    THEN first
    ELSE write_codes(first.runs, n, 0, 0, 0, [k \in 1 .. n |-> 0], checks)

ArrayStart == [state |-> "pending", a |-> << >>, checks |-> FALSE]

\* The table lengths asked for, short ones and the lengths around 256, and
\* the streams of up to MaxStreamLen run bytes.
ArrayInit ==
    /\ array_in \in
          [n : (0 .. MaxTableLen) \cup {255, 256, 257},
           src : UNION {[1 .. n -> {0, 1, 2, 254, 255}] : n \in 0 .. MaxStreamLen}]
    /\ array = ArrayStart

\* read_array returning Ok(a), in a build with or without overflow checks.
ReadArrayOk ==
    /\ array.state = "pending"
    /\ \E checks \in BOOLEAN :
          LET r == read_array(array_in.src, array_in.n, checks) IN
          /\ r.kind = "Ok"
          /\ array' = [state |-> "ok", a |-> r.a, checks |-> checks]
    /\ UNCHANGED array_in
    /\ UNCHANGED <<context, context0, updates, records,
                 reference_sequence_context, slice, add_result, sequences,
                 digests, values, bufs, fqz_in, fq, rans_in, rans, file_in,
                 fd, mates_in, mates, rev_in, rev_out, renorm>>

\* read_array returning the error of read_u8 at the end of the stream.
ReadArrayErr ==
    /\ array.state = "pending"
    /\ \E checks \in BOOLEAN :
          LET r == read_array(array_in.src, array_in.n, checks) IN
          /\ r.kind = "Err"
          /\ array' = [state |-> "err", a |-> << >>, checks |-> checks]
    /\ UNCHANGED array_in
    /\ UNCHANGED <<context, context0, updates, records,
                 reference_sequence_context, slice, add_result, sequences,
                 digests, values, bufs, fqz_in, fq, rans_in, rans, file_in,
                 fd, mates_in, mates, rev_in, rev_out, renorm>>

\* read_array panicking: an index outside runs or a, or i += 1 at 255.
ReadArrayPanic ==
    /\ array.state = "pending"
    /\ \E checks \in BOOLEAN :
          LET r == read_array(array_in.src, array_in.n, checks) IN
          /\ r.kind = "Panic"
          /\ array' = [state |-> "panic", a |-> << >>, checks |-> checks]
    /\ UNCHANGED array_in
    /\ UNCHANGED <<context, context0, updates, records,
                 reference_sequence_context, slice, add_result, sequences,
                 digests, values, bufs, fqz_in, fq, rans_in, rans, file_in,
                 fd, mates_in, mates, rev_in, rev_out, renorm>>

\* ------------------------------------------------------------------------
\* Specifications
\* ------------------------------------------------------------------------
\* The state after construction: the named part of the model with its inputs
\* drawn, every other part in its state before any call. A specification runs
\* one part and leaves the others there.
InitOf(part) ==
    /\ IF part = "ctx" THEN CtxInit ELSE
            /\ context0 = CtxNone
            /\ context = CtxNone
            /\ updates = << >>
    /\ IF part = "full" THEN SliceFullInit ELSE SliceInit
    /\ IF part = "digest" THEN DigestInit ELSE
            /\ sequences = << << >>, << >> >>
            /\ digests = << >>
    /\ IF part = "bcf" THEN BcfInit ELSE
            /\ values = <<ValueNone, ValueNone>>
            /\ bufs = [state |-> "pending", out |-> << >>]
    /\ IF part = "fqz" THEN FqzInit ELSE
            /\ fqz_in = [buf_len |-> 0, params |-> SingleParameters({}, {})]
            /\ fq = FqStart
    /\ IF part = "rans" THEN RansInit ELSE
            /\ rans_in = << >>
            /\ rans = RansStart
    /\ IF part = "file" THEN FileInit ELSE
            /\ file_in = << >>
            /\ fd = FdStart
    /\ IF part = "mates" THEN MatesInit ELSE
            /\ mates_in = << >>
            /\ mates = [state |-> "pending", records |-> << >>]
    /\ IF part = "rev" THEN RevInit ELSE
            /\ rev_in = [qual |-> << >>, rev_len |-> << >>]
            /\ rev_out = RevStart
    /\ IF part = "array" THEN ArrayInit ELSE
            /\ array_in = [n |-> 0, src |-> << >>]
            /\ array = ArrayStart
    /\ IF part = "renorm" THEN RenormInit ELSE
            renorm = [r |-> 0, src |-> << >>, state |-> "pending", out |-> << >>]

Init == InitOf("ctx")

Next == Update

Spec == Init /\ [][Next]_vars

SpecSlice ==
    /\ InitOf("slice")
    /\ [][AddRecord \/ BuildOk \/ BuildErr \/ BuildPanic]_vars

SpecFull == InitOf("full") /\ [][AddRecord \/ AddRecordFull]_vars

SpecDigest == InitOf("digest") /\ [][Digest]_vars

SpecBcf == InitOf("bcf") /\ [][WriteValue \/ WriteValueTodo]_vars

SpecFqz ==
    /\ InitOf("fqz")
    /\ [][\/ FqzBegin
          \/ FqzErr
          \/ FqzDup
          \/ FqzDupPanic
          \/ FqzQual
          \/ FqzQualWrap
          \/ FqzQualPanic
          \/ FqzFinish
          \/ FqzFinishPanic]_vars

SpecRans ==
    /\ InitOf("rans")
    /\ [][\/ RansReadHeader
          \/ RansReadHeaderErr
          \/ RansDecodeOrder0
          \/ RansDecodeOrder1
          \/ RansDecodeErr]_vars

SpecFile ==
    /\ InitOf("file")
    /\ [][ReadFileDefinitionOk \/ ReadFileDefinitionErr]_vars

SpecMates == InitOf("mates") /\ [][SetMates \/ SetMatesPanic]_vars

SpecRev ==
    /\ InitOf("rev")
    /\ [][ReverseQualities \/ ReverseQualitiesPanic]_vars

SpecArray ==
    /\ InitOf("array")
    /\ [][ReadArrayOk \/ ReadArrayErr \/ ReadArrayPanic]_vars

SpecRenorm == InitOf("renorm") /\ [][RansRenormOk \/ RansRenormErr]_vars

\* ------------------------------------------------------------------------
\* Properties of the reference sequence context
\* ------------------------------------------------------------------------
MinOf(S) == CHOOSE x \in S : \A y \in S : x <= y

MaxOf(S) == CHOOSE x \in S : \A y \in S : x >= y

UpdateIdx == 1 .. Len(updates)

\* The update carried Some(id) and both an alignment start and end.
Complete(u, id) == u.id = <<id>> /\ IsSome(u.start) /\ IsSome(u.end)

LastUpdate == updates'[Len(updates')]

\* C1: starting from some(id, s, e), after updates that all carry
\* (Some(id), Some(start_k), Some(end_k)) the context is
\* Some(id, min(s, all start_k), max(e, all end_k)).
C1_SameIdSpan ==
    (/\ context0.kind = "Some"
     /\ \A k \in UpdateIdx : Complete(updates[k], context0.reference_sequence_id))
    => context =
         some(context0.reference_sequence_id,
              MinOf({context0.alignment_start}
                      \cup {updates[k].start[1] : k \in UpdateIdx}),
              MaxOf({context0.alignment_end}
                      \cup {updates[k].end[1] : k \in UpdateIdx}))

\* Two same-id updates, one lowering the start and one raising the end.
C1_Witness ==
    /\ context0.kind = "Some"
    /\ Len(updates) = 2
    /\ \A k \in UpdateIdx : Complete(updates[k], context0.reference_sequence_id)
    /\ updates[1].start[1] < context0.alignment_start
    /\ updates[2].end[1] > context0.alignment_end
    /\ context.kind = "Some"

\* C2 as stated: from some(id, s, e) the context is still Some exactly when
\* every update carried reference_sequence_id = Some(id), whatever alignment
\* start and end the updates carried.
C2_SingleIffIdAgrees ==
    context0.kind = "Some"
    => (context.kind = "Some"
          <=> \A k \in UpdateIdx :
                 updates[k].id = <<context0.reference_sequence_id>>)

\* C2 amended: from some(id, s, e) the context is still Some exactly when
\* every update carried reference_sequence_id = Some(id) together with both
\* an alignment start and an alignment end.
C2_SingleIffComplete ==
    context0.kind = "Some"
    => (context.kind = "Some"
          <=> \A k \in UpdateIdx :
                 Complete(updates[k], context0.reference_sequence_id))

\* An update with the same id but no alignment start has collapsed a Some.
C2_Witness ==
    /\ context0.kind = "Some"
    /\ Len(updates) = 1
    /\ updates[1].id = <<context0.reference_sequence_id>>
    /\ ~IsSome(updates[1].start)
    /\ context.kind = "Many"

\* C3: from a Some(id, s, e) context, an update whose reference sequence id
\* is Some(other) with other # id, or None, yields Many.
C3_MismatchYieldsMany ==
    [][(/\ context.kind = "Some"
        /\ updates' # updates
        /\ \/ ~IsSome(LastUpdate.id)
           \/ LastUpdate.id[1] # context.reference_sequence_id)
       => context' = CtxMany]_vars

\* A Some context has been updated with another id and one with no id.
C3_Witness ==
    /\ context0.kind = "Some"
    /\ Len(updates) = 1
    /\ updates[1].id # <<context0.reference_sequence_id>>
    /\ context = CtxMany

\* C4: from a None context, update yields None when the update's reference
\* sequence id is None and Many when it is Some(_), whatever the alignment
\* start and end; so None followed by all-None updates stays None.
C4_NoneUpdate ==
    /\ [][(context = CtxNone /\ updates' # updates)
            => context' = IF IsSome(LastUpdate.id) THEN CtxMany ELSE CtxNone]_vars
    /\ []((context0 = CtxNone /\ \A k \in UpdateIdx : ~IsSome(updates[k].id))
            => context = CtxNone)

\* A None context updated twice with no id, carrying a start or an end.
C4_Witness ==
    /\ context0 = CtxNone
    /\ Len(updates) = 2
    /\ \A k \in UpdateIdx : ~IsSome(updates[k].id)
    /\ IsSome(updates[1].start)
    /\ IsSome(updates[2].end)
    /\ context = CtxNone

\* C5: Many is absorbing: once the context is Many, it is Many after every
\* later update, whatever its arguments.
C5_ManyAbsorbing ==
    [][is_many(context) => is_many(context')]_vars

\* A context that became Many was updated again and is still Many.
C5_Witness ==
    /\ Len(updates) = 2
    /\ context0.kind = "Some"
    /\ ~IsSome(updates[1].id)
    /\ ~IsSome(updates[2].id)
    /\ is_many(context)

\* ------------------------------------------------------------------------
\* Properties of the slice builder and of the normalized MD5
\* ------------------------------------------------------------------------
\* N of the claims: drop every byte outside 33..=126, map a-z to A-Z.
Normalized(S) ==
    LET kept == SelectSeq(S, LAMBDA b : b \in 33 .. 126) IN
    [k \in 1 .. Len(kept) |->
        IF kept[k] \in 97 .. 122 THEN kept[k] - 32 ELSE kept[k]]

\* The MD5 digest of a byte string.
Md5Of(bytes) == Md5_finalize(Md5_update(Md5_new, bytes))

\* The bases s ..= e (1-based, inclusive) of the reference sequence that the
\* SAM header names for id.
ReferenceBases(id, s, e) ==
    [p \in 1 .. (e - s + 1) |->
        repository[header_reference_sequences[id]][s + p - 1]]

\* C6: for every slice built by Builder::build whose reference context is
\* Some(id, s, e), the header's reference_md5 is the normalized MD5 of
\* reference[id][s..=e], fetched by the name the SAM header gives id; for a
\* None or Many context it is 16 zero bytes. A slice is built only when the
\* span lies within the reference sequence.
C6_ReferenceMd5 ==
    (slice # << >> /\ slice.kind = "Slice")
    => LET ctx == slice.header.reference_sequence_context IN
       /\ ctx = reference_sequence_context
       /\ ctx.kind = "Some"
            => ctx.alignment_end
                 <= Len(repository[header_reference_sequences[
                                       ctx.reference_sequence_id]])
       /\ slice.header.reference_md5 =
            IF ctx.kind = "Some"
            THEN Md5Of(Normalized(ReferenceBases(ctx.reference_sequence_id,
                                                 ctx.alignment_start,
                                                 ctx.alignment_end)))
            ELSE ZeroDigest

\* A slice was built from two records of one reference whose span covers
\* more than one base, one of them changed by the normalization.
C6_Witness ==
    /\ slice # << >>
    /\ slice.kind = "Slice"
    /\ Len(records) = 2
    /\ slice.header.reference_sequence_context.kind = "Some"
    /\ Normalized(repository[header_reference_sequences[
                     slice.header.reference_sequence_context.reference_sequence_id]])
         # repository[header_reference_sequences[
                     slice.header.reference_sequence_context.reference_sequence_id]]
    /\ slice.header.reference_sequence_context.alignment_start
         < slice.header.reference_sequence_context.alignment_end
    /\ records[1].alignment_end[1] < records[2].alignment_end[1]
    /\ slice.header.reference_md5 # ZeroDigest

\* C7: calculate_normalized_sequence_digest is invariant under normalization:
\* digest(S) = digest(N(S)) for every byte sequence S, N is idempotent, and
\* two inputs with the same N(S) get the same digest.
C7_DigestNormalized ==
    digests # << >>
    => /\ \A k \in 1 .. 2 :
            /\ digests[k] = calculate_normalized_sequence_digest(Normalized(sequences[k]))
            /\ digests[k] = Md5Of(Normalized(sequences[k]))
            /\ Normalized(Normalized(sequences[k])) = Normalized(sequences[k])
       /\ Normalized(sequences[1]) = Normalized(sequences[2])
            => digests[1] = digests[2]

\* Two different inputs, one with a lowercase letter and a stripped byte,
\* have the same normal form and got the same digest.
C7_Witness ==
    /\ digests # << >>
    /\ sequences[1] # sequences[2]
    /\ Len(sequences[1]) = 2
    /\ \E k \in 1 .. 2 : sequences[1][k] \in 97 .. 122
    /\ \E k \in 1 .. 2 : sequences[1][k] \notin 33 .. 126
    /\ Normalized(sequences[1]) = Normalized(sequences[2])
    /\ digests[1] = digests[2]

\* ------------------------------------------------------------------------
\* Properties of the BCF value writer
\* ------------------------------------------------------------------------
Written == bufs.state = "written"

IsArray(v) == v.kind \in {"Int8Array", "Int16Array", "Int32Array"}

ShortArray(v) == IsArray(v) /\ Len(v.values) < 2

\* The scalar that has the bytes of an array of fewer than two elements.
ScalarOf(v) ==
    Scalar(SubSeq(v.kind, 1, Len(v.kind) - 5),
           IF Len(v.values) = 0 THEN << >> ELSE <<v.values[1]>>)

\* C8 as stated: every value of the set, the empty and the one-element arrays
\* included, is recovered from its encoding, so write_value maps distinct
\* values to distinct byte strings.
C8_RoundTrip ==
    (Written /\ bufs.out[1] = bufs.out[2]) => values[1] = values[2]

\* C8 amended: write_value maps distinct values among None, the scalars and
\* the arrays of two or more elements to distinct byte strings; an array of
\* no element is written as the missing scalar of its width and an array of
\* one element as the scalar with that element.
C8_RoundTripLongArrays ==
    Written
    => /\ (~ShortArray(values[1]) /\ ~ShortArray(values[2]) /\ bufs.out[1] = bufs.out[2])
            => values[1] = values[2]
       /\ (ShortArray(values[1]) /\ values[2] = ScalarOf(values[1]))
            => bufs.out[1] = bufs.out[2]

\* Two different two-element arrays of one width were written, and a
\* one-element array next to the scalar with its element.
C8_Witness ==
    /\ Written
    /\ \/ /\ values[1].kind = "Int16Array"
          /\ values[2].kind = "Int16Array"
          /\ Len(values[1].values) = 2
          /\ Len(values[2].values) = 2
          /\ values[1] # values[2]
          /\ bufs.out[1] # bufs.out[2]
       \/ /\ values[1].kind = "Int8Array"
          /\ Len(values[1].values) = 1
          /\ values[2] = ScalarOf(values[1])

\* ------------------------------------------------------------------------
\* Properties of fqz_decode and rans_decode
\* ------------------------------------------------------------------------
\* C9: fqz_decode, whenever it returns Ok, returns exactly buf_len bytes,
\* buf_len being the value read first from the stream, and every one of
\* those positions was written by a decoded quality symbol or by the copy of
\* a duplicate record.
C9_OutputFilled ==
    fq.pc = "ok"
    => /\ Len(fq.dst) = fqz_in.buf_len
       /\ fq.written = 0 .. (fqz_in.buf_len - 1)

\* fqz_decode returned Ok after more than one record, the last one a
\* duplicate that was copied.
C9_Witness ==
    /\ fq.pc = "ok"
    /\ fqz_in.buf_len >= 2
    /\ fq.record.rec >= 2
    /\ fq.record.is_dup
    /\ fq.record.rec_len > 0
    /\ fq.record.pos = 0

\* The uncompressed length declared in bytes 6 to 9 of the stream.
DeclaredLen ==
    rans_in[6] + 256 * rans_in[7] + 65536 * rans_in[8] + 16777216 * rans_in[9]

\* C10: rans_decode, whenever it returns Ok, returns a buffer whose length is
\* the u32 uncompressed length declared in the 9-byte header, for order 0 and
\* order 1; an order byte other than 0 or 1 makes it return an InvalidData
\* error before any payload is decoded.
C10_DeclaredLength ==
    /\ rans.pc = "ok"
        => /\ Len(rans_in) >= 9
           /\ rans_in[1] \in {0, 1}
           /\ Len(rans.buf) = DeclaredLen
    /\ (rans.pc # "start" /\ Len(rans_in) >= 1 /\ rans_in[1] \notin {0, 1})
        => /\ rans.pc = "err"
           /\ rans.error = <<"InvalidData">>
           /\ rans.pos = 1
           /\ ~rans.allocated

\* rans_decode returned a buffer of 256 bytes for an order 1 stream whose
\* compressed length differs from it.
C10_Witness ==
    /\ rans.pc = "ok"
    /\ rans_in[1] = 1
    /\ Len(rans.buf) = 256
    /\ rans_in[2] # rans_in[6]

\* ------------------------------------------------------------------------
\* Properties of read_file_definition
\* ------------------------------------------------------------------------
\* C11: read_magic_number is Ok exactly for the four bytes C, R, A, M; any
\* other four bytes give InvalidData and fewer than four give UnexpectedEof.
\* On either error read_file_definition produces no FileDefinition and
\* reads nothing past the magic number.
C11_MagicNumber ==
    fd.pc # "start"
    => /\ Len(file_in) < 4
            => /\ fd.pc = "err"
               /\ fd.error = <<"UnexpectedEof">>
               /\ fd.result = << >>
               /\ fd.pos <= 4
       /\ (Len(file_in) >= 4 /\ SubSeq(file_in, 1, 4) # <<67, 82, 65, 77>>)
            => /\ fd.pc = "err"
               /\ fd.error = <<"InvalidData">>
               /\ fd.result = << >>
               /\ fd.pos = 4
       /\ (Len(file_in) >= 4 /\ SubSeq(file_in, 1, 4) = <<67, 82, 65, 77>>)
            => /\ fd.error # <<"InvalidData">>
               /\ fd.pos >= 4
       /\ fd.pc = "ok" => SubSeq(file_in, 1, 4) = <<67, 82, 65, 77>>

\* Four bytes that differ from CRAM in the last one only were rejected with
\* the version and the file ID still unread in the stream.
C11_Witness ==
    /\ fd.pc = "err"
    /\ fd.error = <<"InvalidData">>
    /\ Len(file_in) > FILE_ID_LEN + 6
    /\ SubSeq(file_in, 1, 3) = <<67, 82, 65>>
    /\ fd.pos = 4

\* The versions taken as supported: CRAM 3.0 and later.
IsSupportedVersion(version) == version.major >= 3

\* C12: read_file_definition returns a FileDefinition only for a supported
\* format version and fails for any other major and minor version bytes.
C12_UnsupportedVersion ==
    /\ fd.pc = "ok" => IsSupportedVersion(fd.result[1].format)
    /\ (/\ fd.pc # "start"
        /\ Len(file_in) >= 6
        /\ SubSeq(file_in, 1, 4) = <<67, 82, 65, 77>>
        /\ file_in[5] < 3)
       => fd.pc = "err"

\* ------------------------------------------------------------------------
\* Properties of set_mates and add_record
\* ------------------------------------------------------------------------
\* Record k can be the mate that set_mates links record i to.
IsMateOf(recs, k, i) ==
    /\ recs[k].is_segmented
    /\ ~recs[k].is_secondary
    /\ recs[k].read_name = recs[i].read_name

\* C13: after set_mates every record i with HAS_MATE_DOWNSTREAM has
\* distance_to_next_fragment = Some(d) with i + d + 1 an index of the slice,
\* and the record there is the nearest later record that is segmented, not
\* secondary and has the read name of record i.
C13_DownstreamMate ==
    mates.state = "done"
    => \A i \in 1 .. Len(mates.records) :
          HAS_MATE_DOWNSTREAM \in mates.records[i].cram_bit_flags
          => /\ IsSome(mates.records[i].distance_to_next_fragment)
             /\ LET j == i + mates.records[i].distance_to_next_fragment[1] + 1
                IN  /\ j \in 1 .. Len(mates.records)
                    /\ IsMateOf(mates.records, j, i)
                    /\ \A k \in (i + 1) .. (j - 1) : ~IsMateOf(mates.records, k, i)

\* C14: add_record returns Ok and appends the record exactly when the
\* builder holds fewer than 10240 records; at 10240 it returns
\* SliceFull(record) with that record and changes neither records nor the
\* reference sequence context. records never holds more than 10240.
C14_SliceFull ==
    /\ [](Len(records) <= 10240)
    /\ [][/\ add_result'.kind \in {"Ok", "SliceFull"}
          /\ add_result'.kind = "Ok" <=> Len(records) < 10240
          /\ add_result'.kind = "Ok"
                => records' = Append(records, add_result'.record)
          /\ add_result'.kind = "SliceFull"
                => /\ records' = records
                   /\ reference_sequence_context' = reference_sequence_context
                   /\ add_result'.record \in SampleRecords]_vars

\* A full builder has rejected a mapped record after accepting one as its
\* 10240th.
C14_Witness ==
    /\ Len(records) = 10240
    /\ records[10240] # UnmappedRecord
    /\ add_result.kind = "SliceFull"
    /\ IsSome(add_result.record.reference_sequence_id)

\* ------------------------------------------------------------------------
\* Properties of reverse_qualities
\* ------------------------------------------------------------------------
\* The sum of the lengths of the first k entries of rev_len.
RECURSIVE SumLens(_, _)
SumLens(rev_len, k) == IF k = 0 THEN 0 ELSE SumLens(rev_len, k - 1) + rev_len[k][2]

\* The record that holds 1-based position p of the buffer.
RecordAt(rev_len, p) ==
    CHOOSE k \in 1 .. Len(rev_len) :
        SumLens(rev_len, k - 1) < p /\ p <= SumLens(rev_len, k)

\* qual with the bytes of every record flagged true in reverse order.
ReversedByRecord(qual, rev_len) ==
    [p \in 1 .. Len(qual) |->
        LET k == RecordAt(rev_len, p)
            first == SumLens(rev_len, k - 1) + 1
            last == SumLens(rev_len, k)
        IN  IF rev_len[k][1] THEN qual[first + last - p] ELSE qual[p]]

\* C15: for rev_len entries whose lengths sum to qual_len, reverse_qualities
\* reverses the bytes of each record flagged true, leaves the other bytes
\* unchanged, and applied twice gives back the buffer.
C15_ReverseQualities ==
    (/\ rev_out.state # "pending"
     /\ SumLens(rev_in.rev_len, Len(rev_in.rev_len)) = Len(rev_in.qual))
    => /\ rev_out.state = "done"
       /\ rev_out.qual = ReversedByRecord(rev_in.qual, rev_in.rev_len)
       /\ rev_out.twice = <<rev_in.qual>>

\* ------------------------------------------------------------------------
\* Properties of read_array
\* ------------------------------------------------------------------------
\* C20: whenever read_array(n) returns Ok, the array has n entries and is
\* non-decreasing.
C20_NonDecreasing ==
    array.state = "ok"
    => /\ Len(array.a) = array_in.n
       /\ \A p \in 1 .. (array_in.n - 1) : array.a[p] <= array.a[p + 1]

\* ------------------------------------------------------------------------
\* Properties of the records of fqz_decode
\* ------------------------------------------------------------------------
\* The record decoded last is not a duplicate: a quality symbol of it has
\* been decoded.
DecodingRecord == fq.hist.q # << >>

\* C16: for a record that is not a duplicate, the symbols decoded and the
\* remaining count pos add up to rec_len, pos never goes below 0 (nor wraps),
\* so exactly rec_len symbols are decoded before the next record header.
C16_ExactlyRecLen ==
    DecodingRecord
    => /\ fq.hist.cause # "pos"
       /\ fq.record.pos <= fq.record.rec_len
       /\ fq.hist.nq = fq.record.rec_len - fq.record.pos

\* A pass of the loop that decodes a record header.
StartsRecord == fq.pc = "loop" /\ fq'.record.rec = fq.record.rec + 1

\* The record started in this step is flagged duplicate and its copy stays
\* inside dst.
DupInRange ==
    /\ fq'.record.rec_len <= fq.i
    /\ fq.i + fq'.record.rec_len <= fqz_in.buf_len

\* What the claim says of a pass that starts a duplicate record.
DupCopied ==
    /\ fq'.pc = "loop"
    /\ fq'.i = fq.i + fq'.record.rec_len
    /\ \A j \in 0 .. (fq'.record.rec_len - 1) :
          fq'.dst[fq.i + j + 1] = fq'.dst[fq.i + j - fq'.record.rec_len + 1]
    /\ \A k \in 1 .. fq.i : fq'.dst[k] = fq.dst[k]
    /\ fq'.hist.nq = 0
    /\ fq'.hist.q = << >>
    /\ fq'.record.pos = 0

C18_LengthOnce ==
    fq.pc # "start"
    => \A k \in 1 .. Len(fq.params.params) :
          IF DO_LEN \in fq.params.params[k].flags
          THEN fq.hist.len_reads[k] = fq.hist.uses[k]
          ELSE /\ fq.hist.len_reads[k] = IF fq.hist.uses[k] > 0 THEN 1 ELSE 0
               /\ Cardinality(fq.hist.rec_lens[k]) <= 1
               /\ fq.hist.uses[k] > 0
                    => /\ fq.params.params[k].first_len = 0
                       /\ fq.hist.rec_lens[k] = {fq.params.params[k].last_len}

\* Three records of one byte each were started with a parameter set that
\* has no DO_LEN.
C18_Witness ==
    /\ fq.pc = "ok"
    /\ \E k \in 1 .. Len(fq.params.params) :
          /\ DO_LEN \notin fq.params.params[k].flags
          /\ fq.hist.uses[k] = 3
          /\ fq.hist.len_reads[k] = 1
          /\ fq.hist.rec_lens[k] = {1}

\* A pass of the loop that decodes a quality symbol.
DecodesQuality ==
    fq.pc = "loop" /\ fq'.i = fq.i + 1 /\ fq'.hist.q # << >>

\* The record as fqz_update_context finds it in this pass.
RecordBefore ==
    IF fq.record.pos = 0
    THEN [fq'.record EXCEPT !.qctx = 0, !.delta = 0, !.prevq = 0,
                            !.pos = fq'.record.rec_len]
    ELSE fq.record

\* C19: the context after a quality symbol q is
\* (seed + ((qctx' & (2^q_bits - 1)) << q_loc) + [HAVE_PTAB] p_tab[min(pos,
\* 1023)] << p_loc + [HAVE_DTAB] d_tab[min(delta, 255)] << d_loc + [DO_SEL]
\* sel << s_loc) mod 2^16 with qctx' = (qctx << q_shift) + q_tab[q]; delta
\* goes up by one exactly when HAVE_DTAB and prevq # q; the context is below
\* 65536; a record starts with qctx, delta and prevq 0 and its first symbol
\* is decoded under the seed of its parameter set.
C19_UpdateContext ==
    [][DecodesQuality
        => LET param == fq'.params.params[fq'.x + 1]
               q == fq'.hist.q[1]
               pre == RecordBefore
               qctx == pre.qctx * Pow2(param.q_shift) + param.q_tab[q + 1]
               sum == param.context
                      + (qctx % Pow2(param.q_bits)) * Pow2(param.q_loc)
                      + (IF HAVE_PTAB \in param.flags
                         THEN TableAt(param.p_tab, cmp_min(pre.pos, 1023))
                              * Pow2(param.p_loc)
                         ELSE 0)
                      + (IF HAVE_DTAB \in param.flags
                         THEN TableAt(param.d_tab, cmp_min(pre.delta, 255))
                              * Pow2(param.d_loc)
                         ELSE 0)
                      + (IF DO_SEL \in param.flags
                         THEN pre.sel * Pow2(param.s_loc)
                         ELSE 0)
           IN  /\ fq'.record.qctx = qctx
               /\ fq'.ctx = sum % 65536
               /\ fq'.ctx < 65536
               /\ fq'.record.delta =
                    pre.delta + (IF HAVE_DTAB \in param.flags /\ pre.prevq # q
                                 THEN 1 ELSE 0)
               /\ fq'.hist.used =
                    <<IF fq.record.pos = 0 THEN param.context ELSE fq.ctx>>
               /\ fq'.hist.used[1] < 65536]_vars

\* The second symbol of a record was decoded under a parameter set with a
\* position and a delta table whose seed makes the sum pass 2^16, after a
\* first symbol that raised delta.
C19_Witness ==
    /\ fq.pc = "loop"
    /\ fq.hist.nq = 2
    /\ fq.record.delta = 2
    /\ {HAVE_PTAB, HAVE_DTAB} \subseteq fq.params.params[fq.x + 1].flags
    /\ fq.params.params[fq.x + 1].context = 65535
    /\ fq.ctx < 65535

\* ------------------------------------------------------------------------
\* Properties of rans_renorm
\* ------------------------------------------------------------------------
\* The state after k bytes of src were appended to r one at a time, the
\* appending having stopped at the first value of at least 2^23.
RECURSIVE Appended(_, _, _)
Appended(r, src, k) ==
    IF k = 0
    THEN r
    ELSE LET before == Appended(r, src, k - 1) IN
         IF before >= 8388608 THEN before ELSE (before * 256) + src[k]

\* C21: rans_renorm returns r unchanged and reads no byte when r >= 2^23;
\* otherwise it appends bytes one at a time, r = (r << 8) + byte, and stops
\* at the first value of at least 2^23, which is below 2^31 (so the u32
\* arithmetic never overflows); when the source ends first it returns an
\* error.
C21_Renorm ==
    renorm.state # "pending" =>
        LET r == renorm.r
            src == renorm.src
            out == renorm.out
        IN  /\ out.pos \in 0 .. Len(src)
            /\ r >= 8388608 => out.kind = "Ok" /\ out.r = r /\ out.pos = 0
            /\ out.kind = "Ok" =>
                  /\ out.r = Appended(r, src, out.pos)
                  /\ out.r >= 8388608
                  /\ out.pos > 0 =>
                        /\ Appended(r, src, out.pos - 1) < 8388608
                        /\ out.r <= 2147483647
                        /\ out.r % 256 = src[out.pos]
            /\ out.kind = "Err" =>
                  /\ out.pos = Len(src)
                  /\ Appended(r, src, Len(src)) < 8388608
                  /\ out.error = "UnexpectedEof"

\* rans_renorm has read three bytes from a state of 0 and returned exactly
\* 2^23.
C21_Witness ==
    /\ renorm.state = "ok"
    /\ renorm.r = 0
    /\ renorm.out.pos = 3
    /\ renorm.out.r = 8388608

\* ------------------------------------------------------------------------
\* Further properties of the reference sequence context
\* ------------------------------------------------------------------------
\* C22: from a Some context created with alignment_start <= alignment_end,
\* every Some context that update calls lead to has alignment_start <=
\* alignment_end, so alignment_span is at least 1, and no update gives a
\* larger start or a smaller end than the context had before.
C22_SpanNeverUnderflows ==
    /\ [](/\ context0.kind = "Some"
          /\ context0.alignment_start <= context0.alignment_end
          /\ context.kind = "Some"
          => /\ context.alignment_start <= context.alignment_end
             /\ alignment_span(context) >= 1)
    /\ [][/\ context0.kind = "Some"
          /\ context0.alignment_start <= context0.alignment_end
          /\ context'.kind = "Some"
          => /\ context.kind = "Some"
             /\ context'.alignment_start <= context.alignment_start
             /\ context'.alignment_end >= context.alignment_end]_vars

\* Two updates of the same id, one of them carrying a start above its end,
\* have widened a context created with start <= end.
C22_Witness ==
    /\ context0.kind = "Some"
    /\ context0.alignment_start <= context0.alignment_end
    /\ context.kind = "Some"
    /\ Len(updates) = 2
    /\ \E k \in 1 .. 2 : updates[k].start[1] > updates[k].end[1]
    /\ alignment_span(context) > alignment_span(context0)

\* ------------------------------------------------------------------------
\* Properties of the context that add_record keeps
\* ------------------------------------------------------------------------
\* C23: after any successful add_record calls, if the context of the builder
\* is Some(id, s, e), every record held has the reference sequence id id, an
\* alignment start of at least s and an alignment end of at most e.
C23_SomeCoversRecords ==
    reference_sequence_context.kind = "Some" =>
        \A k \in 1 .. Len(records) :
            /\ records[k].reference_sequence_id =
                  <<reference_sequence_context.reference_sequence_id>>
            /\ IsSome(records[k].alignment_start)
            /\ IsSome(records[k].alignment_end)
            /\ records[k].alignment_start[1] >=
                  reference_sequence_context.alignment_start
            /\ records[k].alignment_end[1] <=
                  reference_sequence_context.alignment_end

\* A second record of the same reference has lowered the start of the
\* context below the start of the first one.
C23_Witness ==
    /\ Len(records) = 2
    /\ reference_sequence_context.kind = "Some"
    /\ records[2].alignment_start[1] < records[1].alignment_start[1]
    /\ reference_sequence_context.alignment_start = records[2].alignment_start[1]

\* C24: after any successful add_record calls on a fresh builder, if the
\* context is None then no record held has a reference sequence id.
C24_NoneMeansUnmapped ==
    reference_sequence_context.kind = "None" =>
        \A k \in 1 .. Len(records) : ~IsSome(records[k].reference_sequence_id)

\* The context a fresh builder has after add_record on each record of recs,
\* in their order.
RECURSIVE ContextAfter(_, _)
ContextAfter(recs, n) ==
    IF n = 0
    THEN CtxNone
    ELSE IF n = 1
    THEN IF IsSome(recs[1].reference_sequence_id)
            /\ IsSome(recs[1].alignment_start)
            /\ IsSome(recs[1].alignment_end)
         THEN some(recs[1].reference_sequence_id[1],
                   recs[1].alignment_start[1],
                   recs[1].alignment_end[1])
         ELSE CtxNone
    ELSE update(ContextAfter(recs, n - 1),
                recs[n].reference_sequence_id,
                recs[n].alignment_start,
                recs[n].alignment_end)

\* C25: the context of a builder depends only on the records added, not on
\* their order: adding them to a fresh builder in any other order gives the
\* same context.
C25_OrderIndependent ==
    \A p \in Permutations(1 .. Len(records)) :
        ContextAfter([k \in 1 .. Len(records) |-> records[p[k]]], Len(records))
            = reference_sequence_context

\* ------------------------------------------------------------------------
\* Bounds and progress of fqz_decode
\* ------------------------------------------------------------------------
\* C26: fqz_decode never indexes outside dst: every index written is below
\* buf_len, and whenever a record at offset i is flagged duplicate with
\* length rec_len, i >= rec_len and i + rec_len <= buf_len, so that the copy
\* never panics.
C26_InsideDst ==
    /\ [](fq.written \subseteq 0 .. (fqz_in.buf_len - 1))
    /\ [](~(fq.pc = "panic" /\ fq.hist.cause = "dup"))
    /\ [][(StartsRecord /\ fq'.record.is_dup) => DupInRange]_vars

\* C27: every pass of the loop of fqz_decode either returns an error or
\* strictly increases i.
C27_Progress ==
    [][(fq.pc = "loop" /\ fq'.pc = "loop") => fq'.i > fq.i]_vars

\* ------------------------------------------------------------------------
\* Bounds of read_array
\* ------------------------------------------------------------------------
\* C28: read_array(n) never indexes outside its two n-entry buffers: every
\* call returns Ok with n entries or the error of a read, and none panics.
C28_InsideBuffers ==
    /\ array.state # "panic"
    /\ array.state = "ok" => Len(array.a) = array_in.n

\* ------------------------------------------------------------------------
\* set_mates as build calls it
\* ------------------------------------------------------------------------
\* C29: every call of build, on a builder reached by zero or more add_record
\* calls, reaches set_mates with a list of at least one record: the
\* assertion !records.is_empty() holds and build does not panic in it.
C29_AssertionHolds ==
    [][(slice = << >> /\ slice' # << >>)
        => (records # << >> /\ ~set_mates_panics(records))]_vars

\* Record i is the only segmented, not secondary record of recs with its
\* read name.
OnlyOfItsName(recs, i) ==
    \A k \in 1 .. Len(recs) : IsMateOf(recs, k, i) => k = i

\* C30: after set_mates, whatever CRAM flags the records carried before, no
\* record has both DETACHED and HAS_MATE_DOWNSTREAM, and a record is DETACHED
\* exactly when it is unsegmented, secondary, or the only segmented, not
\* secondary record with its read name.
C30_DetachedOrMated ==
    mates.state = "done"
    => \A i \in 1 .. Len(mates.records) :
          LET record == mates.records[i] IN
          /\ ~({DETACHED, HAS_MATE_DOWNSTREAM} \subseteq record.cram_bit_flags)
          /\ DETACHED \in record.cram_bit_flags
                <=> \/ ~record.is_segmented
                    \/ record.is_secondary
                    \/ OnlyOfItsName(mates.records, i)

====
